---- MODULE Spec2Model ----
(***************************************************************************)
(* Generation-and-delivery pipeline of novelvoice.                         *)
(*                                                                         *)
(* Modelled from src/app/audio_generator.py (GenerationManager,            *)
(* generate_chapter_audio with its script_producer and audio_producer      *)
(* threads, the resume-point helpers), src/app/hls_manager.py              *)
(* (stream_chapter_hls, the delivery request that starts a generation),    *)
(* src/app/edgetts_client.py (the cancel checks and the exception of the   *)
(* streaming synthesis) and src/app/audio.py (stream_existing_file, the    *)
(* reader of the growing file).                                            *)
(*                                                                         *)
(* Audio bytes are abstracted to chunks <<segment, item, k>>: the k-th      *)
(* chunk the synthesis backend yields for utterance `item` of the voice    *)
(* script of segment `segment`.  A file is the sequence of chunks written. *)
(***************************************************************************)
EXTENDS Integers, Sequences, FiniteSets, TLC

\* ---------------------------------------------------------------- bounds
MaxTasks == 2        \* generation tasks started over one behaviour
MaxSegs == 2         \* segments of a chapter (result of the segmenter), at most
MaxItems == 2        \* utterances of one voice script, at most
MaxChunks == 2       \* chunks the backend streams for one utterance, at most
BufferChunks == 3    \* chunks that fill the 100KB write buffer
QueueCap == 1        \* size of script_queue (10 in the source)
StallLimit == 1      \* no-growth samples a reader tolerates (60 in the source)
StreamQueueCap == 1  \* size of audio_queue and of client_queue (10 in the source)
MaxOffset == 1       \* the ts parameter of a request, at most (in units of audio)
SliceUnits == 1      \* audio an incremental conversion processes (-t 60 in the source)
MaxLines == 4        \* lines of a chapter text given to the segmenter, at most

Users == {"u1", "u2"}
Chapters == {"X", "Y"}
TaskIds == 1..MaxTasks
NoTask == 0
Readers == {"r1"}
StreamRuns == {1, 2}    \* generations the /stream route starts, one after the other
Calls == {1, 2}         \* /hls/<id>/stream requests of the user in progress at once
NoCall == 0

VARIABLES
  audio_status,          \* Chapter.audio_status: idle (NULL), generating, complete, failed
  audio_exists,          \* os.path.exists(audio_path), per chapter
  audio_data,            \* content of chapter_<id>.mp3, per chapter
  resume_file,           \* chapter_<id>.resume.json, per chapter
  script_cache,          \* segments whose chapter_<id>_segment_<i>_script.json exists
  tasks,                 \* GenerationManager._tasks: user -> task (chapter_id, cancel_event)
  cancel_event,          \* the threading.Event of each task
  task,                  \* arguments and resume decision of each generate_chapter_audio call
                         \* (pre_data: the file a resuming task found, kept for the
                         \* statement of the resume properties)
  script_queue,          \* the task's queue.Queue(maxsize=10)
  error_container,       \* the task's error_container['error']
  script_complete_event, \* the task's script_complete_event
  sp,                    \* script_producer thread: position and loop index
  ap,                    \* audio_producer thread: position, locals, file handle
  shape,                 \* the chapters' content: segments, utterances per script,
                         \* chunks per utterance (fixed over a behaviour)
  \* --- the /stream route of audio.py, for chapter X
  stream_run,            \* stream_chapter calls that started a generation (case 3)
  stream_tasks,          \* audio.py's _generation_manager holds an entry for the chapter
  stream_cancel_event,   \* cancel_event of the current stream_chapter call
  stream_error,          \* its error_container['error']
  complete_event,        \* its complete_event
  audio_queue,           \* its audio_queue
  client_queue,          \* its client_queue
  producer,              \* its audio_producer thread (fed by its script_producer)
  fw,                    \* its file_writer thread
  client,                \* its generate() consumer, the streaming client
  reader,                \* stream_existing_file generators, one per tailing request
  \* --- what callers of single methods see
  returned,              \* the last cancel_task call: its arguments and return value
  \* --- hls_manager.py, for one user (HlsUser)
  hls_lock,              \* _conversion_locks[user]: its holder, a call, "cleanup" or NoCall
  playlist,              \* user_<id>/playlist.m3u8: #EXTINF entries and #EXT-X-ENDLIST
  segment_files,         \* the segment_NNN.ts files of user_<id>/
  hls_dir,               \* os.path.exists(hls_dir) for user_<id>/
  call,                  \* stream_chapter_hls requests in progress: position, arguments, locals
  cleanup,               \* the /hls/clear request: position
  \* --- _split_content_into_segments
  content,               \* the chapter text: the length of each line (0: a blank line)
  segments,              \* the returned list: each segment the paragraphs joined in it
  split,                 \* the call: position, paragraphs and locals of the loop
  \* --- the calls of generate_voice_script, where they are counted
  generate_calls         \* the calls of the last iteration of a script_producer's
                         \* segment loop, and whether it obtained a script

vars == <<audio_status, audio_exists, audio_data, resume_file, script_cache, tasks,
          cancel_event, task, script_queue, error_container, script_complete_event,
          sp, ap, shape, stream_run, stream_tasks, stream_cancel_event, stream_error,
          complete_event, audio_queue, client_queue, producer, fw, client, reader,
          returned, hls_lock, playlist, segment_files, hls_dir, call,
          cleanup, content, segments, split, generate_calls>>

\* The state of hls_manager.py.
hlsVars == <<hls_lock, playlist, segment_files, hls_dir, call, cleanup>>

\* What the actions of the two generation pipelines leave alone.
\* The state of a _split_content_into_segments call.
splitVars == <<content, segments, split>>

restVars == <<returned, hlsVars, splitVars, generate_calls>>

\* What the /stream route of audio.py adds to the state.
streamVars == <<stream_run, stream_tasks, stream_cancel_event, stream_error,
                complete_event, audio_queue, client_queue, producer, fw, client, reader>>

\* What only generate_chapter_audio and its threads touch.
pipelineVars == <<resume_file, script_cache, tasks, cancel_event, task, script_queue,
                  error_container, script_complete_event, sp, ap, shape>>

NumSegs == shape.segs
NumItems == shape.items
NumChunks == shape.chunks

\* ------------------------------------------------------------ data model
NoResume == [present |-> FALSE, segment_index |-> 0, last_completed_item |-> 0,
             audio_file_size |-> 0]

NoTaskRec == [st |-> "free", user |-> "u1", chapter |-> "X", start_segment |-> 0,
              start_item |-> 0, file_mode |-> "wb", pre_data |-> <<>>]

ScriptIdle == [pc |-> "idle", i |-> 0]

AudioIdle == [pc |-> "idle", current_segment_index |-> 0, item |-> 0, chunk |-> 0,
              buffer |-> <<>>, pos |-> 0, orphan |-> FALSE, file_completed |-> FALSE,
              clear_calls |-> 0]

\* No cancel_task call has returned yet.
NoReturn == [user |-> "none", chapter |-> "none", value |-> FALSE]

\* The calls of generate_voice_script: not counted, or none yet.
NoCalls(counted) == [counted |-> counted, last |-> 0, ok |-> TRUE]

\* No playlist.m3u8.
NoPlaylist == [exists |-> FALSE, entries |-> <<>>, endlist |-> FALSE]

\* A request slot not in use.
CallIdle == [pc |-> "idle", chapter |-> "none", t |-> 0, route_case |-> 0,
             is_generating |-> FALSE, start_time |-> 0, returncode |-> "none",
             waited |-> FALSE, result |-> "none"]

ProducerIdle == [pc |-> "idle", seg |-> 0, chunk |-> 0]

WriterIdle == [pc |-> "idle", pos |-> 0, file_complete |-> FALSE]

ReaderIdle == [pc |-> "idle", position |-> 0, last_size |-> 0, no_growth_count |-> 0,
               emitted |-> <<>>, run |-> 0, why |-> "none"]

\* A generator that has ended: what it emitted and why it ended are kept (run: the
\* generation that was running when it started), its locals are gone.
ReaderEnded(rd, why, emitted) ==
  [ReaderIdle EXCEPT !.pc = "ended", !.why = why, !.emitted = emitted, !.run = rd.run]

\* The audio_producer holds the output file open inside its `with open(...)` block.
HandleOpen(t) == ap[t].pc \in {"loop", "get", "synth", "callback"}

\* When the second thread of a task returns, the closure of its
\* generate_chapter_audio call (queue, script_complete_event, error container,
\* locals) is unreachable: only what other parts of the program can still see is
\* kept.
RetiredTask(r) == [NoTaskRec EXCEPT !.st = "ended", !.user = r.user, !.chapter = r.chapter]

RetiredAudio(a) == [AudioIdle EXCEPT !.pc = "done", !.file_completed = a.file_completed]

RetiredScript == [pc |-> "end", i |-> 0]

\* A hole left by a write beyond the end of a truncated file.
Gap == <<-1, -1, -1>>

RECURSIVE Pad(_)
Pad(n) == IF n <= 0 THEN <<>> ELSE <<Gap>> \o Pad(n - 1)

\* f.write(data) at offset pos of a file holding `old`.
WriteAt(old, pos, data) ==
  LET base == IF pos > Len(old) THEN old \o Pad(pos - Len(old)) ELSE old
      n == Len(data)
  IN [k \in 1..(IF pos + n > Len(base) THEN pos + n ELSE Len(base)) |->
        IF k > pos /\ k <= pos + n THEN data[k - pos] ELSE base[k]]

\* No chapter has audio and no task is registered.
InitSource ==
  /\ audio_status = [c \in Chapters |-> "idle"]
  /\ audio_exists = [c \in Chapters |-> FALSE]
  /\ audio_data = [c \in Chapters |-> <<>>]
  /\ tasks = [u \in Users |-> NoTask]
  /\ task = [t \in TaskIds |-> NoTaskRec]

\* No resume point, no cached script, no thread, no stream, no HLS cache.
InitOther ==
  /\ resume_file = [c \in Chapters |-> NoResume]
  /\ script_cache = [c \in Chapters |-> {}]
  /\ cancel_event = [t \in TaskIds |-> FALSE]
  /\ script_queue = [t \in TaskIds |-> <<>>]
  /\ error_container = [t \in TaskIds |-> "none"]
  /\ script_complete_event = [t \in TaskIds |-> FALSE]
  /\ sp = [t \in TaskIds |-> ScriptIdle]
  /\ ap = [t \in TaskIds |-> AudioIdle]
  /\ stream_run = 0
  /\ stream_tasks = FALSE
  /\ stream_cancel_event = FALSE
  /\ stream_error = "none"
  /\ complete_event = FALSE
  /\ audio_queue = <<>>
  /\ client_queue = <<>>
  /\ producer = ProducerIdle
  /\ fw = WriterIdle
  /\ client = "idle"
  /\ reader = [r \in Readers |-> ReaderIdle]
  /\ returned = NoReturn
  /\ hls_lock = NoCall
  /\ playlist = NoPlaylist
  /\ segment_files = {}
  /\ hls_dir = FALSE
  /\ call = [k \in Calls |-> CallIdle]
  /\ cleanup = "idle"
  /\ segments = <<>>
  /\ split = [pc |-> "input", paragraphs |-> <<>>, i |-> 0,
              current_segment |-> <<>>, segment_index |-> 0]

\* The chapter text is not looked at by the threads: its shape stands for it.
InitState ==
  /\ InitSource /\ InitOther /\ content = <<>>
  /\ generate_calls = NoCalls(FALSE)

\* Short chapters: one segment, one utterance.
Init ==
  /\ InitState
  /\ shape \in [segs : {1}, items : {1}, chunks : 1..MaxChunks]

\* Long chapters: long in two of segments, utterances per segment and chunks per
\* utterance.
InitLong ==
  /\ InitState
  /\ shape \in {[segs |-> MaxSegs, items |-> MaxItems, chunks |-> 1],
                [segs |-> MaxSegs, items |-> 1, chunks |-> MaxChunks],
                [segs |-> 1, items |-> MaxItems, chunks |-> MaxChunks]}

\* ------------------------------------------------- GenerationManager
\* A register_task that stores the new task without cancelling the stored one.
register_task_keeps_old(user_id, chapter_id, ev) ==
  /\ cancel_event' = cancel_event
  /\ tasks' = [tasks EXCEPT ![user_id] = ev]

\* register_task: cancel the user's stored task when it is for another chapter and
\* not yet cancelled, then store the new task (overwriting the entry).
register_task(user_id, chapter_id, ev) ==
  LET old_task == tasks[user_id] IN
  /\ cancel_event' =
       IF /\ old_task # NoTask
          /\ task[old_task].chapter # chapter_id
          /\ ~cancel_event[old_task]
       THEN [cancel_event EXCEPT ![old_task] = TRUE]
       ELSE cancel_event
  /\ tasks' = [tasks EXCEPT ![user_id] = ev]

\* A cancel_task that cancels the stored task whatever its chapter.
cancel_task_any_chapter(user_id, chapter_id) ==
  LET stored == tasks[user_id] IN
  /\ cancel_event' =
       IF stored # NoTask THEN [cancel_event EXCEPT ![stored] = TRUE] ELSE cancel_event
  /\ UNCHANGED tasks

\* cancel_task: only when the stored task is for chapter_id.
cancel_task(user_id, chapter_id) ==
  LET stored == tasks[user_id] IN
  /\ cancel_event' =
       IF stored # NoTask /\ task[stored].chapter = chapter_id
       THEN [cancel_event EXCEPT ![stored] = TRUE]
       ELSE cancel_event
  /\ UNCHANGED tasks

\* The value cancel_task returns.
cancel_task_result(user_id, chapter_id) ==
  tasks[user_id] # NoTask /\ task[tasks[user_id]].chapter = chapter_id

\* A clear_task that pops the user's entry whatever its chapter.
clear_task_any_chapter(map, user_id, chapter_id) == [map EXCEPT ![user_id] = NoTask]

\* A clear_task that leaves the map as it is.
clear_task_never(map, user_id, chapter_id) == map

\* clear_task: pop the user's entry when it is for chapter_id; the map after it.
clear_task(map, user_id, chapter_id) ==
  IF map[user_id] # NoTask /\ task[map[user_id]].chapter = chapter_id
  THEN [map EXCEPT ![user_id] = NoTask]
  ELSE map

check_chapter_generating(user_id, chapter_id) ==
  tasks[user_id] # NoTask /\ task[tasks[user_id]].chapter = chapter_id

\* ------------------------------------------------- resume point
\* _load_resume_point: the stored resume data when both the resume file and the
\* audio file exist (the size check is commented out in the source), else None.
load_resume_point(c) ==
  IF resume_file[c].present /\ audio_exists[c] THEN resume_file[c] ELSE NoResume

\* _save_resume_point: the resume file written for (segment_index, item), with the
\* size os.path.getsize reports at that instant.
save_resume_point(c, segment_index, last_completed_item) ==
  [present |-> TRUE, segment_index |-> segment_index,
   last_completed_item |-> last_completed_item,
   audio_file_size |-> IF audio_exists[c] THEN Len(audio_data[c]) ELSE 0]

\* ------------------------------------------------- delivery request
\* stream_chapter_hls reaches generate_chapter_audio (its case 4) when neither the
\* chapter is complete with its file, nor the user's stored task is for this
\* chapter with the file present.
StartsGeneration(u, c) ==
  /\ ~(audio_status[c] = "complete" /\ audio_exists[c])
  /\ ~(check_chapter_generating(u, c) /\ audio_exists[c])

\* os.remove(audio_path): the path is gone; writers that hold the old file open
\* keep writing to the unlinked file.
RemoveAudio(c) ==
  /\ audio_exists' = [audio_exists EXCEPT ![c] = FALSE]
  /\ audio_data' = [audio_data EXCEPT ![c] = <<>>]
  /\ ap' = [t2 \in TaskIds |->
              IF task[t2].chapter = c /\ HandleOpen(t2)
              THEN [ap[t2] EXCEPT !.orphan = TRUE] ELSE ap[t2]]

\* A request of user u for chapter c that starts a generation: the head of
\* generate_chapter_audio (load the resume point, remove an old file when there
\* is none, mark the chapter generating).  Task slots are taken in order, and,
\* users and chapters being interchangeable, the first task is u1's for X.
ReqStart(t, u, c) ==
  /\ task[t].st = "free"
  /\ \A t2 \in TaskIds : t2 < t => task[t2].st # "free"
  /\ (t = 1 => (u = "u1" /\ c = "X"))
  /\ StartsGeneration(u, c)
  /\ LET resume_data == load_resume_point(c) IN
     /\ task' = [task EXCEPT ![t] =
          [st |-> "loaded", user |-> u, chapter |-> c,
           start_segment |-> IF resume_data.present THEN resume_data.segment_index ELSE 0,
           start_item |-> IF resume_data.present
                          THEN resume_data.last_completed_item + 1 ELSE 0,
           file_mode |-> IF resume_data.present THEN "ab" ELSE "wb",
           pre_data |-> IF resume_data.present THEN audio_data[c] ELSE <<>>]]
     /\ IF ~resume_data.present /\ audio_exists[c]
        THEN RemoveAudio(c)
        ELSE UNCHANGED <<audio_exists, audio_data, ap>>
  /\ audio_status' = [audio_status EXCEPT ![c] = "generating"]
  /\ UNCHANGED <<resume_file, script_cache, tasks, cancel_event, script_queue,
                 error_container, script_complete_event, sp>>
  /\ UNCHANGED <<shape, streamVars, restVars>>

\* The chapter content cannot be read: the chapter, just marked generating, is
\* marked failed and the exception goes back to the route; no task is registered
\* and no thread started.
ReqContentError(t) ==
  /\ task[t].st = "loaded"
  /\ audio_status' = [audio_status EXCEPT ![task[t].chapter] = "failed"]
  /\ task' = [task EXCEPT ![t] = RetiredTask(@)]
  /\ sp' = [sp EXCEPT ![t] = RetiredScript]
  /\ ap' = [ap EXCEPT ![t] = RetiredAudio(@)]
  /\ UNCHANGED <<audio_exists, audio_data, resume_file, script_cache, tasks,
                 cancel_event, script_queue, error_container, script_complete_event>>
  /\ UNCHANGED <<shape, streamVars, restVars>>

\* The rest of generate_chapter_audio: register the task and start both threads.
Register(t) ==
  /\ task[t].st = "loaded"
  /\ register_task(task[t].user, task[t].chapter, t)
  /\ task' = [task EXCEPT ![t].st = "running"]
  /\ sp' = [sp EXCEPT ![t] = [pc |-> "seg", i |-> task[t].start_segment]]
  /\ ap' = [ap EXCEPT ![t].pc = "open",
                      ![t].current_segment_index = task[t].start_segment]
  /\ UNCHANGED <<audio_status, audio_exists, audio_data, resume_file, script_cache,
                 script_queue, error_container, script_complete_event>>
  /\ UNCHANGED <<shape, streamVars, restVars>>

\* DELETE /chapters/<id>/generation: cancel_chapter_generation(user, chapter).
CancelRequest(u, c) ==
  /\ cancel_task(u, c)
  /\ UNCHANGED <<audio_status, audio_exists, audio_data, resume_file, script_cache,
                 task, script_queue, error_container, script_complete_event, sp, ap>>
  /\ UNCHANGED <<shape, streamVars, restVars>>

\* ------------------------------------------------- script_producer
ScriptMsg(i, start) == [tag |-> "script", seg |-> i, start |-> start]
DoneMsg == [tag |-> "done", seg |-> 0, start |-> 0]
ErrorMsg == [tag |-> "error", seg |-> 0, start |-> 0]

\* script_queue.put blocks while the queue is full.
CanPut(t) == Len(script_queue[t]) < QueueCap

\* A start item that is the resume item for every segment.
start_item_every_segment(t, i) == task[t].start_item

\* The item the audio stage starts segment i at: the resume item for the resumed
\* segment, 0 for every other one.
current_start_item(t, i) == IF i = task[t].start_segment THEN task[t].start_item ELSE 0

\* max_retries: the attempts of generate_voice_script for one segment.
max_retries == 3

\* What the attempts for a segment can come to: outcomes[k] says whether the k-th
\* call of generate_voice_script returns a script (it raises otherwise).
Outcomes == [1..max_retries -> BOOLEAN]

\* The attempt that leaves the retry loop by break, 0 when every attempt raises.
first_success(outcomes) ==
  IF \E k \in 1..max_retries : outcomes[k]
  THEN CHOOSE k \in 1..max_retries :
         outcomes[k] /\ \A j \in 1..(k - 1) : ~outcomes[j]
  ELSE 0

\* A script stage that calls generate_voice_script whether or not a cached
\* script exists.
calls_ignoring_cache(cached, outcomes) ==
  IF first_success(outcomes) = 0 THEN max_retries ELSE first_success(outcomes)

\* The calls of generate_voice_script in one iteration: none when the cached
\* script exists, else one per attempt up to the first that returns.
generate_voice_script_calls(cached, outcomes) ==
  IF cached THEN 0
  ELSE IF first_success(outcomes) = 0 THEN max_retries
  ELSE first_success(outcomes)

\* A script stage that goes on with whatever the retry loop left.
never_none(cached, outcomes) == FALSE

\* voice_script is None after the retry loop: no cached script and every attempt
\* raised.
voice_script_is_none(cached, outcomes) == ~cached /\ first_success(outcomes) = 0

\* The calls of the iteration are recorded, where they are counted.
Called(cached, outcomes) ==
  IF generate_calls.counted
  THEN [counted |-> TRUE,
        last |-> generate_voice_script_calls(cached, outcomes),
        ok |-> cached \/ first_success(outcomes) # 0]
  ELSE generate_calls

\* One iteration of the segment loop that obtains a script (from the cache, or
\* from generate_voice_script within its three attempts, caching it), enqueues
\* (i, voice_script, current_start_item) and then checks the cancel event.
ScriptSegment(t) ==
  LET i == sp[t].i
      c == task[t].chapter
  IN
  /\ sp[t].pc = "seg" /\ i < NumSegs
  /\ CanPut(t)
  /\ \E outcomes \in Outcomes :
       /\ ~voice_script_is_none(i \in script_cache[c], outcomes)
       /\ generate_calls' = Called(i \in script_cache[c], outcomes)
  /\ script_cache' = [script_cache EXCEPT ![c] = @ \cup {i}]
  /\ script_queue' = [script_queue EXCEPT ![t] = Append(@, ScriptMsg(i, current_start_item(t, i)))]
  /\ IF cancel_event[t]
     THEN /\ error_container' = [error_container EXCEPT ![t] =
                                   IF @ = "none" THEN "cancelled" ELSE @]
          /\ sp' = [sp EXCEPT ![t].pc = "put_error"]
     ELSE /\ sp' = [sp EXCEPT ![t].i = i + 1]
          /\ UNCHANGED error_container
  /\ UNCHANGED <<audio_status, audio_exists, audio_data, resume_file, tasks,
                 cancel_event, task, script_complete_event, ap>>
  /\ UNCHANGED <<shape, streamVars, returned, hlsVars, splitVars>>

\* An uncached segment whose three generate_voice_script attempts all fail: the
\* segment is skipped (continue), nothing is enqueued or cached.
ScriptSkip(t) ==
  /\ sp[t].pc = "seg" /\ sp[t].i < NumSegs
  /\ \E outcomes \in Outcomes :
       /\ voice_script_is_none(sp[t].i \in script_cache[task[t].chapter], outcomes)
       /\ generate_calls' =
            Called(sp[t].i \in script_cache[task[t].chapter], outcomes)
  /\ sp' = [sp EXCEPT ![t].i = @ + 1]
  /\ UNCHANGED <<audio_status, audio_exists, audio_data, resume_file, script_cache,
                 tasks, cancel_event, task, script_queue, error_container,
                 script_complete_event, ap>>
  /\ UNCHANGED <<shape, streamVars, returned, hlsVars, splitVars>>

\* An exception in the loop (outer except): the error is recorded, then ('error', ..)
\* is put.
ScriptException(t) ==
  /\ sp[t].pc = "seg" /\ sp[t].i < NumSegs
  /\ error_container' = [error_container EXCEPT ![t] = "exception"]
  /\ sp' = [sp EXCEPT ![t].pc = "put_error"]
  /\ UNCHANGED <<audio_status, audio_exists, audio_data, resume_file, script_cache,
                 tasks, cancel_event, task, script_queue, script_complete_event, ap>>
  /\ UNCHANGED <<shape, streamVars, restVars>>

\* The thread puts its terminal message (setting script_complete_event after a
\* 'done') and returns.
ScriptReturns(t, msg) ==
  IF ap[t].pc = "done"
  THEN /\ script_queue' = [script_queue EXCEPT ![t] = <<>>]
       /\ sp' = [sp EXCEPT ![t] = RetiredScript]
       /\ ap' = [ap EXCEPT ![t] = RetiredAudio(@)]
       /\ task' = [task EXCEPT ![t] = RetiredTask(@)]
       /\ error_container' = [error_container EXCEPT ![t] = "none"]
       /\ script_complete_event' = [script_complete_event EXCEPT ![t] = FALSE]
  ELSE /\ script_queue' = [script_queue EXCEPT ![t] = Append(@, msg)]
       /\ sp' = [sp EXCEPT ![t].pc = "end"]
       /\ script_complete_event' =
            [script_complete_event EXCEPT ![t] = @ \/ msg.tag = "done"]
       /\ UNCHANGED <<ap, task, error_container>>

\* script_queue.put(('error', ..)) and return.
ScriptPutError(t) ==
  /\ sp[t].pc = "put_error"
  /\ CanPut(t)
  /\ ScriptReturns(t, ErrorMsg)
  /\ UNCHANGED <<audio_status, audio_exists, audio_data, resume_file, script_cache,
                 tasks, cancel_event>>
  /\ UNCHANGED <<shape, streamVars, restVars>>

\* Natural exhaustion: script_queue.put(('done', None, 0)), script_complete_event.set().
ScriptDone(t) ==
  /\ sp[t].pc = "seg" /\ sp[t].i >= NumSegs
  /\ CanPut(t)
  /\ ScriptReturns(t, DoneMsg)
  /\ UNCHANGED <<audio_status, audio_exists, audio_data, resume_file, script_cache,
                 tasks, cancel_event>>
  /\ UNCHANGED <<shape, streamVars, restVars>>

\* ------------------------------------------------- audio_producer
\* f.write(data); f.flush() through the task's handle: the file content after it.
\* An append-mode handle writes at the end; a write-mode handle at its own offset;
\* a handle on an unlinked file does not touch the path's file.
Written(t, data) ==
  LET c == task[t].chapter IN
  IF ap[t].orphan \/ data = <<>> THEN audio_data[c]
  ELSE IF task[t].file_mode = "ab" THEN audio_data[c] \o data
  ELSE WriteAt(audio_data[c], ap[t].pos, data)

\* open(audio_path, file_mode): 'wb' creates or truncates, 'ab' creates when missing.
AudioOpen(t) ==
  LET c == task[t].chapter IN
  /\ ap[t].pc = "open"
  /\ audio_exists' = [audio_exists EXCEPT ![c] = TRUE]
  /\ audio_data' = [audio_data EXCEPT ![c] =
                      IF task[t].file_mode = "wb" \/ ~audio_exists[c] THEN <<>> ELSE @]
  /\ ap' = [ap EXCEPT ![t].pc = "loop", ![t].pos = 0, ![t].orphan = FALSE]
  /\ UNCHANGED <<audio_status, resume_file, script_cache, tasks, cancel_event, task,
                 script_queue, error_container, script_complete_event, sp>>
  /\ UNCHANGED <<shape, streamVars, restVars>>

\* Top of the while loop: the cancel check.
AudioLoop(t) ==
  /\ ap[t].pc = "loop"
  /\ ap' = [ap EXCEPT ![t].pc = IF cancel_event[t] THEN "exit" ELSE "get"]
  /\ UNCHANGED <<audio_status, audio_exists, audio_data, resume_file, script_cache,
                 tasks, cancel_event, task, script_queue, error_container,
                 script_complete_event, sp>>
  /\ UNCHANGED <<shape, streamVars, restVars>>

\* A timeout that ends the audio stage whatever the script stage has done.
timeout_breaks(t) == "exit"

\* except queue.Empty: break when script_complete_event is set, else continue.
after_timeout(t) == IF script_complete_event[t] THEN "exit" ELSE "loop"

\* script_queue.get(timeout=180) raises queue.Empty.
AudioTimeout(t) ==
  /\ ap[t].pc = "get"
  /\ script_queue[t] = <<>>
  /\ ap' = [ap EXCEPT ![t].pc = after_timeout(t)]
  /\ UNCHANGED <<audio_status, audio_exists, audio_data, resume_file, script_cache,
                 tasks, cancel_event, task, script_queue, error_container,
                 script_complete_event, sp>>
  /\ UNCHANGED <<shape, streamVars, restVars>>

\* ('error', ..) dequeued: break.
AudioGetError(t) ==
  /\ ap[t].pc = "get"
  /\ script_queue[t] # <<>> /\ Head(script_queue[t]).tag = "error"
  /\ script_queue' = [script_queue EXCEPT ![t] = Tail(@)]
  /\ ap' = [ap EXCEPT ![t].pc = "exit"]
  /\ UNCHANGED <<audio_status, audio_exists, audio_data, resume_file, script_cache,
                 tasks, cancel_event, task, error_container, script_complete_event, sp>>
  /\ UNCHANGED <<shape, streamVars, restVars>>

\* What the 'done' branch does to the chapter: with no recorded error the chapter
\* becomes complete and the resume file is deleted; otherwise marking is skipped.
DoneMarks(t) == error_container[t] = "none"

\* The chapter statuses after the 'done' branch.
MarkedComplete(t) ==
  IF DoneMarks(t) THEN [audio_status EXCEPT ![task[t].chapter] = "complete"]
  ELSE audio_status

\* A 'done' branch that deletes the resume file whether or not it marks complete.
ResumeDeletedAlways(t) == [resume_file EXCEPT ![task[t].chapter] = NoResume]

\* The resume files after the 'done' branch (_delete_resume_file follows the commit).
ResumeAfterDone(t) ==
  IF DoneMarks(t) THEN [resume_file EXCEPT ![task[t].chapter] = NoResume]
  ELSE resume_file

\* ('done', ..) dequeued.
AudioGetDone(t) ==
  LET c == task[t].chapter IN
  /\ ap[t].pc = "get"
  /\ script_queue[t] # <<>> /\ Head(script_queue[t]).tag = "done"
  /\ script_queue' = [script_queue EXCEPT ![t] = Tail(@)]
  /\ audio_status' = MarkedComplete(t)
  /\ resume_file' = ResumeAfterDone(t)
  /\ tasks' = clear_task(tasks, task[t].user, c)
  /\ ap' = [ap EXCEPT ![t].pc = "exit", ![t].file_completed = TRUE,
                      ![t].clear_calls = @ + 1]
  /\ UNCHANGED <<audio_exists, audio_data, script_cache, cancel_event, task,
                 error_container, script_complete_event, sp>>
  /\ UNCHANGED <<shape, streamVars, restVars>>

\* (segment_index, voice_script, segment_start_item) dequeued: the streaming
\* synthesis of the script starts at item segment_start_item.
AudioGetScript(t) ==
  LET m == Head(script_queue[t]) IN
  /\ ap[t].pc = "get"
  /\ script_queue[t] # <<>> /\ m.tag = "script"
  /\ script_queue' = [script_queue EXCEPT ![t] = Tail(@)]
  /\ ap' = [ap EXCEPT ![t].pc = IF m.start < NumItems THEN "synth" ELSE "loop",
                      ![t].current_segment_index = m.seg,
                      ![t].item = m.start, ![t].chunk = 0, ![t].buffer = <<>>]
  /\ UNCHANGED <<audio_status, audio_exists, audio_data, resume_file, script_cache,
                 tasks, cancel_event, task, error_container, script_complete_event, sp>>
  /\ UNCHANGED <<shape, streamVars, restVars>>

\* The generator ends (exhausted, or returned on the cancel event): the rest of the
\* buffer is written and the loop continues.
SynthEnd(t, buf) ==
  LET c == task[t].chapter IN
  /\ audio_data' = [audio_data EXCEPT ![c] = Written(t, buf)]
  /\ ap' = [ap EXCEPT ![t].pc = "loop", ![t].buffer = <<>>,
                      ![t].pos = @ + Len(buf)]

\* The backend's next chunk of the current utterance; the client returns instead
\* when it sees the cancel event (before an utterance and after each chunk).
SynthChunk(t) ==
  LET c == task[t].chapter
      b == Append(ap[t].buffer, <<ap[t].current_segment_index, ap[t].item, ap[t].chunk>>)
  IN
  /\ ap[t].pc = "synth"
  /\ IF cancel_event[t]
     THEN SynthEnd(t, ap[t].buffer)
     ELSE IF Len(b) >= BufferChunks
          THEN /\ audio_data' = [audio_data EXCEPT ![c] = Written(t, b)]
               /\ ap' = [ap EXCEPT ![t].buffer = <<>>, ![t].pos = @ + Len(b),
                                   ![t].chunk = @ + 1,
                                   ![t].pc = IF ap[t].chunk + 1 = NumChunks
                                             THEN "callback" ELSE "synth"]
          ELSE /\ ap' = [ap EXCEPT ![t].buffer = b, ![t].chunk = @ + 1,
                                   ![t].pc = IF ap[t].chunk + 1 = NumChunks
                                             THEN "callback" ELSE "synth"]
               /\ UNCHANGED audio_data
  /\ UNCHANGED <<audio_status, audio_exists, resume_file, script_cache, tasks,
                 cancel_event, task, script_queue, error_container,
                 script_complete_event, sp>>
  /\ UNCHANGED <<shape, streamVars, restVars>>

\* The utterance's stream is over: progress_callback(item) saves the resume point
\* and the client goes on to the next utterance, or ends after the last one.
SynthCallback(t) ==
  LET c == task[t].chapter IN
  /\ ap[t].pc = "callback"
  /\ IF cancel_event[t]
     THEN /\ SynthEnd(t, ap[t].buffer)
          /\ UNCHANGED resume_file
     ELSE /\ resume_file' = [resume_file EXCEPT ![c] =
                save_resume_point(c, ap[t].current_segment_index, ap[t].item)]
          /\ IF ap[t].item + 1 < NumItems
             THEN /\ ap' = [ap EXCEPT ![t].pc = "synth", ![t].item = @ + 1,
                                      ![t].chunk = 0]
                  /\ UNCHANGED audio_data
             ELSE SynthEnd(t, ap[t].buffer)
  /\ UNCHANGED <<audio_status, audio_exists, script_cache, tasks, cancel_event, task,
                 script_queue, error_container, script_complete_event, sp>>
  /\ UNCHANGED <<shape, streamVars, restVars>>

\* The synthesis raises (of the call itself, or of the stream of an utterance): the
\* except branch records the error and continues the loop; the buffer is dropped.
SynthFail(t) ==
  /\ ap[t].pc = "synth"
  /\ error_container' = [error_container EXCEPT ![t] = "exception"]
  /\ ap' = [ap EXCEPT ![t].pc = "loop", ![t].buffer = <<>>]
  /\ UNCHANGED <<audio_status, audio_exists, audio_data, resume_file, script_cache,
                 tasks, cancel_event, task, script_queue, script_complete_event, sp>>
  /\ UNCHANGED <<shape, streamVars, restVars>>

\* After the loop: the file is closed, clear_task is called, and a task that did
\* not complete the file marks the chapter failed.
AudioExit(t) ==
  LET c == task[t].chapter IN
  /\ ap[t].pc = "exit"
  /\ tasks' = clear_task(tasks, task[t].user, c)
  /\ audio_status' = IF ap[t].file_completed THEN audio_status
                     ELSE [audio_status EXCEPT ![c] = "failed"]
  /\ IF sp[t].pc = "end"
     THEN /\ ap' = [ap EXCEPT ![t] = RetiredAudio(@)]
          /\ sp' = [sp EXCEPT ![t] = RetiredScript]
          /\ task' = [task EXCEPT ![t] = RetiredTask(@)]
          /\ script_queue' = [script_queue EXCEPT ![t] = <<>>]
          /\ error_container' = [error_container EXCEPT ![t] = "none"]
          /\ script_complete_event' = [script_complete_event EXCEPT ![t] = FALSE]
     ELSE /\ ap' = [ap EXCEPT ![t].pc = "done", ![t].clear_calls = 0]
          /\ UNCHANGED <<sp, task, script_queue, error_container,
                         script_complete_event>>
  /\ UNCHANGED <<audio_exists, audio_data, resume_file, script_cache, cancel_event>>
  /\ UNCHANGED <<shape, streamVars, restVars>>

\* ------------------------------------------------- /stream: generation (audio.py)
\* stream_chapter for chapter X.  Its case 3 starts a generation with three threads
\* of its own; the audio_producer is modelled with the messages its script_producer
\* feeds it (a script per segment, then 'done', or 'error'); a script's audio is one
\* utterance's chunks.
StreamChapter == "X"

StreamQuiet == producer.pc \in {"idle", "end"} /\ fw.pc \in {"idle", "end"}

\* Case 3: neither complete with its file nor generating with its file.  The old
\* file is removed, the chapter marked generating, queues and events are created
\* and the task registered; the three threads start and the response streams
\* generate().  Requests come one at a time (no run is in progress).
StreamStart ==
  LET c == StreamChapter IN
  /\ stream_run < Cardinality(StreamRuns)
  /\ StreamQuiet
  /\ ~(audio_status[c] = "complete" /\ audio_exists[c])
  /\ ~(audio_status[c] = "generating" /\ audio_exists[c])
  /\ audio_exists' = [audio_exists EXCEPT ![c] = FALSE]
  /\ audio_data' = [audio_data EXCEPT ![c] = <<>>]
  /\ audio_status' = [audio_status EXCEPT ![c] = "generating"]
  /\ stream_run' = stream_run + 1
  /\ stream_tasks' = TRUE
  /\ stream_cancel_event' = FALSE
  /\ stream_error' = "none"
  /\ complete_event' = FALSE
  /\ audio_queue' = <<>>
  /\ client_queue' = <<>>
  /\ producer' = [pc |-> "loop", seg |-> 0, chunk |-> 0]
  /\ fw' = [pc |-> "open", pos |-> 0, file_complete |-> FALSE]
  /\ client' = "recv"
  /\ UNCHANGED reader
  /\ UNCHANGED <<pipelineVars, restVars>>

\* A /stream request for another chapter registers its task: register_task sets
\* the cancel event of this chapter's entry and deletes the entry.
StreamSuperseded ==
  /\ stream_tasks
  /\ stream_tasks' = FALSE
  /\ stream_cancel_event' = TRUE
  /\ UNCHANGED <<audio_status, audio_exists, audio_data, stream_run, stream_error,
                 complete_event, audio_queue, client_queue, producer, fw, client, reader>>
  /\ UNCHANGED <<pipelineVars, restVars>>

StreamData(chunk) == [tag |-> "data", chunk |-> chunk, err |-> "none"]
StreamDone == [tag |-> "done", chunk |-> Gap, err |-> "none"]
StreamErr(e) == [tag |-> "error", chunk |-> Gap, err |-> e]

\* audio_queue.put blocks while the queue is full.
CanPutAudio == Len(audio_queue) < StreamQueueCap

\* audio_producer, top of the loop with the cancel event set: ('error', ..) is put,
\* complete_event set, and the loop left.
ProducerCancel ==
  /\ producer.pc = "loop" /\ stream_cancel_event
  /\ CanPutAudio
  /\ audio_queue' = Append(audio_queue,
                          StreamErr(IF stream_error = "none" THEN "cancelled"
                                    ELSE stream_error))
  /\ complete_event' = TRUE
  /\ producer' = [producer EXCEPT !.pc = "put_done"]
  /\ UNCHANGED <<audio_status, audio_exists, audio_data, stream_run, stream_tasks,
                 stream_cancel_event, stream_error, client_queue, fw, client, reader>>
  /\ UNCHANGED <<pipelineVars, restVars>>

\* A script is dequeued: its streaming synthesis starts.
ProducerGetScript ==
  /\ producer.pc = "loop" /\ ~stream_cancel_event
  /\ producer.seg < NumSegs
  /\ producer' = [producer EXCEPT !.pc = "synth", !.chunk = 0]
  /\ UNCHANGED <<audio_status, audio_exists, audio_data, stream_run, stream_tasks,
                 stream_cancel_event, stream_error, complete_event, audio_queue,
                 client_queue, fw, client, reader>>
  /\ UNCHANGED <<pipelineVars, restVars>>

\* ('error', ..) is dequeued (script_producer failed and recorded its error): it is
\* passed on and the loop left.
ProducerGetError ==
  /\ producer.pc = "loop" /\ ~stream_cancel_event
  /\ producer.seg < NumSegs
  /\ CanPutAudio
  /\ stream_error' = "exception"
  /\ audio_queue' = Append(audio_queue, StreamErr("exception"))
  /\ producer' = [producer EXCEPT !.pc = "put_done"]
  /\ UNCHANGED <<audio_status, audio_exists, audio_data, stream_run, stream_tasks,
                 stream_cancel_event, complete_event, client_queue, fw, client, reader>>
  /\ UNCHANGED <<pipelineVars, restVars>>

\* ('done', ..) is dequeued after the last script: the loop is left.
ProducerGetDone ==
  /\ producer.pc = "loop" /\ ~stream_cancel_event
  /\ producer.seg >= NumSegs
  /\ producer' = [producer EXCEPT !.pc = "put_done"]
  /\ UNCHANGED <<audio_status, audio_exists, audio_data, stream_run, stream_tasks,
                 stream_cancel_event, stream_error, complete_event, audio_queue,
                 client_queue, fw, client, reader>>
  /\ UNCHANGED <<pipelineVars, restVars>>

\* The backend's next chunk: audio_queue.put(('data', chunk)).
ProducerChunk ==
  /\ producer.pc = "synth"
  /\ CanPutAudio
  /\ audio_queue' = Append(audio_queue, StreamData(<<producer.seg, 0, producer.chunk>>))
  /\ producer' = IF producer.chunk + 1 = NumChunks
                 THEN [pc |-> "loop", seg |-> producer.seg + 1, chunk |-> 0]
                 ELSE [producer EXCEPT !.chunk = @ + 1]
  /\ UNCHANGED <<audio_status, audio_exists, audio_data, stream_run, stream_tasks,
                 stream_cancel_event, stream_error, complete_event, client_queue, fw,
                 client, reader>>
  /\ UNCHANGED <<pipelineVars, restVars>>

\* The synthesis of the script raises: the error is recorded, the loop continues.
ProducerSynthFail ==
  /\ producer.pc = "synth"
  /\ stream_error' = "exception"
  /\ producer' = [pc |-> "loop", seg |-> producer.seg + 1, chunk |-> 0]
  /\ UNCHANGED <<audio_status, audio_exists, audio_data, stream_run, stream_tasks,
                 stream_cancel_event, complete_event, audio_queue, client_queue, fw,
                 client, reader>>
  /\ UNCHANGED <<pipelineVars, restVars>>

\* After the loop: audio_queue.put(('done', None)); complete_event.set().
ProducerPutDone ==
  /\ producer.pc = "put_done"
  /\ CanPutAudio
  /\ audio_queue' = Append(audio_queue, StreamDone)
  /\ complete_event' = TRUE
  /\ producer' = [producer EXCEPT !.pc = "end"]
  /\ UNCHANGED <<audio_status, audio_exists, audio_data, stream_run, stream_tasks,
                 stream_cancel_event, stream_error, client_queue, fw, client, reader>>
  /\ UNCHANGED <<pipelineVars, restVars>>

\* ------------------------------------------------- /stream: file_writer, generate
\* client_queue.put(msg, block=False): the queue after it; a full queue drops msg.
PutNoWait(q, msg) == IF Len(q) < StreamQueueCap THEN Append(q, msg) ELSE q

\* with open(audio_path, 'wb').
WriterOpen ==
  LET c == StreamChapter IN
  /\ fw.pc = "open"
  /\ audio_exists' = [audio_exists EXCEPT ![c] = TRUE]
  /\ audio_data' = [audio_data EXCEPT ![c] = <<>>]
  /\ fw' = [fw EXCEPT !.pc = "loop", !.pos = 0]
  /\ UNCHANGED <<audio_status, stream_run, stream_tasks, stream_cancel_event,
                 stream_error, complete_event, audio_queue, client_queue, producer,
                 client, reader>>
  /\ UNCHANGED <<pipelineVars, restVars>>

\* Top of the loop with the cancel event set.
WriterCancel ==
  /\ fw.pc = "loop" /\ stream_cancel_event
  /\ stream_error' = IF stream_error = "none" THEN "cancelled" ELSE stream_error
  /\ fw' = [fw EXCEPT !.pc = "post"]
  /\ UNCHANGED <<audio_status, audio_exists, audio_data, stream_run, stream_tasks,
                 stream_cancel_event, complete_event, audio_queue, client_queue,
                 producer, client, reader>>
  /\ UNCHANGED <<pipelineVars, restVars>>

\* audio_queue.get: data is written, flushed and offered to the client queue;
\* 'done' and 'error' are offered to the client queue and end the loop.
WriterGet ==
  LET c == StreamChapter
      msg == Head(audio_queue)
  IN
  /\ fw.pc = "loop" /\ ~stream_cancel_event
  /\ audio_queue # <<>>
  /\ audio_queue' = Tail(audio_queue)
  /\ client_queue' = PutNoWait(client_queue, msg)
  /\ CASE msg.tag = "data" ->
            /\ audio_data' = [audio_data EXCEPT ![c] = WriteAt(@, fw.pos, <<msg.chunk>>)]
            /\ fw' = [fw EXCEPT !.pos = @ + 1]
            /\ UNCHANGED stream_error
       [] msg.tag = "done" ->
            /\ fw' = [fw EXCEPT !.pc = "post", !.file_complete = TRUE]
            /\ UNCHANGED <<audio_data, stream_error>>
       [] OTHER ->
            /\ stream_error' = msg.err
            /\ fw' = [fw EXCEPT !.pc = "post"]
            /\ UNCHANGED audio_data
  /\ UNCHANGED <<audio_status, audio_exists, stream_run, stream_tasks,
                 stream_cancel_event, complete_event, producer, client, reader>>
  /\ UNCHANGED <<pipelineVars, restVars>>

\* After the loop: a complete file without error marks the chapter complete; with
\* an error the file is removed and the chapter marked failed; clear_task.
WriterPost ==
  LET c == StreamChapter IN
  /\ fw.pc = "post"
  /\ IF fw.file_complete /\ stream_error = "none"
     THEN /\ audio_status' = [audio_status EXCEPT ![c] = "complete"]
          /\ UNCHANGED <<audio_exists, audio_data>>
     ELSE IF stream_error # "none"
     THEN /\ audio_exists' = [audio_exists EXCEPT ![c] = FALSE]
          /\ audio_data' = [audio_data EXCEPT ![c] = <<>>]
          /\ audio_status' = [audio_status EXCEPT ![c] = "failed"]
     ELSE UNCHANGED <<audio_status, audio_exists, audio_data>>
  /\ stream_tasks' = FALSE
  /\ fw' = [fw EXCEPT !.pc = "end"]
  /\ UNCHANGED <<stream_run, stream_cancel_event, stream_error, complete_event,
                 audio_queue, client_queue, producer, client, reader>>
  /\ UNCHANGED <<pipelineVars, restVars>>

\* generate(): client_queue.get; data is yielded, 'done' and 'error' end it.
ClientGet ==
  /\ client = "recv" /\ client_queue # <<>>
  /\ client_queue' = Tail(client_queue)
  /\ client' = IF Head(client_queue).tag = "data" THEN "recv" ELSE "end"
  /\ UNCHANGED <<audio_status, audio_exists, audio_data, stream_run, stream_tasks,
                 stream_cancel_event, stream_error, complete_event, audio_queue,
                 producer, fw, reader>>
  /\ UNCHANGED <<pipelineVars, restVars>>

\* generate(): the get times out on an empty queue after the producer has ended.
ClientTimeout ==
  /\ client = "recv" /\ client_queue = <<>> /\ complete_event
  /\ client' = "end"
  /\ UNCHANGED <<audio_status, audio_exists, audio_data, stream_run, stream_tasks,
                 stream_cancel_event, stream_error, complete_event, audio_queue,
                 client_queue, producer, fw, reader>>
  /\ UNCHANGED <<pipelineVars, restVars>>

\* The client closes the connection: GeneratorExit in generate().
ClientDisconnect ==
  /\ client = "recv"
  /\ client' = "end"
  /\ UNCHANGED <<audio_status, audio_exists, audio_data, stream_run, stream_tasks,
                 stream_cancel_event, stream_error, complete_event, audio_queue,
                 client_queue, producer, fw, reader>>
  /\ UNCHANGED <<pipelineVars, restVars>>

\* ------------------------------------------------- /stream: the tailing reader
\* Case 2 of stream_chapter: the chapter is generating and its file exists; the
\* response streams stream_existing_file().
ReaderStart(r) ==
  LET c == StreamChapter IN
  /\ reader[r].pc = "idle"
  /\ audio_status[c] = "generating" /\ audio_exists[c]
  /\ reader' = [reader EXCEPT ![r] =
       [ReaderIdle EXCEPT !.pc = "read", !.last_size = Len(audio_data[c]),
                          !.run = stream_run]]
  /\ UNCHANGED <<audio_status, audio_exists, audio_data, stream_run, stream_tasks,
                 stream_cancel_event, stream_error, complete_event, audio_queue,
                 client_queue, producer, fw, client>>
  /\ UNCHANGED <<pipelineVars, restVars>>

\* What a read from offset position to the end of the file returns.
ReadFrom(data, position) ==
  IF position >= Len(data) THEN <<>> ELSE SubSeq(data, position + 1, Len(data))

\* The inner loop: the file is opened and read from position, 8192 bytes at a
\* time, every block yielded, until a read returns nothing.  (The file only grows
\* while the handle is open, so the blocks of one pass are taken in one step.)
\* A missing file ends the generator.
ReaderRead(r) ==
  LET c == StreamChapter
      got == ReadFrom(audio_data[c], reader[r].position)
  IN
  /\ reader[r].pc = "read"
  /\ reader' = [reader EXCEPT ![r] =
       IF ~audio_exists[c]
       THEN ReaderEnded(@, "notfound", @.emitted)
       ELSE [@ EXCEPT !.pc = "check", !.emitted = @ \o got,
                      !.position = @ + Len(got),
                      !.no_growth_count = IF got = <<>> THEN @ ELSE 0]]
  /\ UNCHANGED <<audio_status, audio_exists, audio_data, stream_run, stream_tasks,
                 stream_cancel_event, stream_error, complete_event, audio_queue,
                 client_queue, producer, fw, client>>
  /\ UNCHANGED <<pipelineVars, restVars>>

\* An end on 'complete' that reads no remainder.
EndWithoutRemainder(rd, c) == ReaderEnded(rd, "complete", rd.emitted)

\* At the end of the file with the chapter complete: the remainder is read and
\* yielded (a failing open is passed over), and the generator ends.
ReadRemainder(rd, c) ==
  ReaderEnded(rd, "complete",
              IF audio_exists[c] THEN rd.emitted \o ReadFrom(audio_data[c], rd.position)
              ELSE rd.emitted)

\* At the end of the file: the status check.
ReaderCheck(r) ==
  LET c == StreamChapter IN
  /\ reader[r].pc = "check"
  /\ reader' = [reader EXCEPT ![r] =
       IF audio_status[c] = "complete" THEN ReadRemainder(@, c)
       ELSE [@ EXCEPT !.pc = "size"]]
  /\ UNCHANGED <<audio_status, audio_exists, audio_data, stream_run, stream_tasks,
                 stream_cancel_event, stream_error, complete_event, audio_queue,
                 client_queue, producer, fw, client>>
  /\ UNCHANGED <<pipelineVars, restVars>>

\* The size sample: growth resets the count; no growth counts one more sample and,
\* past the limit, ends the generator, else sleeps a second; a smaller file changes
\* nothing; os.path.getsize raises on a missing file.
ReaderSize(r) ==
  LET c == StreamChapter
      current_size == Len(audio_data[c])
      rd == reader[r]
  IN
  /\ rd.pc = "size"
  /\ reader' = [reader EXCEPT ![r] =
       IF ~audio_exists[c] THEN ReaderEnded(rd, "oserror", rd.emitted)
       ELSE IF current_size > rd.last_size
       THEN [rd EXCEPT !.pc = "read", !.last_size = current_size, !.no_growth_count = 0]
       ELSE IF current_size = rd.last_size
       THEN IF rd.no_growth_count + 1 > StallLimit
            THEN ReaderEnded(rd, "stalled", rd.emitted)
            ELSE [rd EXCEPT !.pc = "read", !.no_growth_count = @ + 1]
       ELSE [rd EXCEPT !.pc = "read"]]
  /\ UNCHANGED <<audio_status, audio_exists, audio_data, stream_run, stream_tasks,
                 stream_cancel_event, stream_error, complete_event, audio_queue,
                 client_queue, producer, fw, client>>
  /\ UNCHANGED <<pipelineVars, restVars>>

\* A disconnect that cancels the generation.
ReaderDisconnectCancels(r) ==
  /\ reader[r].pc \in {"read", "check", "size"}
  /\ reader' = [reader EXCEPT ![r] = ReaderEnded(@, "disconnected", @.emitted)]
  /\ stream_cancel_event' = TRUE
  /\ UNCHANGED <<audio_status, audio_exists, audio_data, stream_run, stream_tasks,
                 stream_error, complete_event, audio_queue, client_queue, producer,
                 fw, client>>
  /\ UNCHANGED <<pipelineVars, restVars>>

\* The reader's client closes the connection: the generator is closed.
ReaderDisconnect(r) ==
  /\ reader[r].pc \in {"read", "check", "size"}
  /\ reader' = [reader EXCEPT ![r] = ReaderEnded(@, "disconnected", @.emitted)]
  /\ UNCHANGED <<audio_status, audio_exists, audio_data, stream_run, stream_tasks,
                 stream_cancel_event, stream_error, complete_event, audio_queue,
                 client_queue, producer, fw, client>>
  /\ UNCHANGED <<pipelineVars, restVars>>

\* ------------------------------------------------- hls_manager.py
\* The requests of one user: the owner of the novel.
HlsUser == "u1"

\* The lock holder that stands for the /hls/clear request.
CleanupId == Cardinality(Calls) + 1

\* Everything hls_manager.py does not write itself.
nonHlsVars == <<audio_status, audio_exists, audio_data, pipelineVars, streamVars,
                returned, splitVars, generate_calls>>

is_hls_exists == playlist.exists

\* The playlist exists and contains #EXT-X-ENDLIST.
is_hls_ready == playlist.exists /\ playlist.endlist

RECURSIVE SumExtinf(_)
SumExtinf(entries) ==
  IF entries = <<>> THEN 0 ELSE Head(entries).duration + SumExtinf(Tail(entries))

\* A duration read from the last #EXTINF line only.
last_extinf(pl) ==
  IF pl.exists /\ pl.entries # <<>> THEN pl.entries[Len(pl.entries)].duration ELSE 0

\* _get_playlist_duration: the sum of the #EXTINF durations, 0.0 without playlist.
get_playlist_duration(pl) == IF pl.exists THEN SumExtinf(pl.entries) ELSE 0

\* _count_segments: the segment_*.ts files in the directory.
count_segments == Cardinality(segment_files)

\* _remove_endlist_if_exists: the playlist without its #EXT-X-ENDLIST line (a
\* missing playlist raises inside the try and is left alone).
remove_endlist_if_exists(pl) == [pl EXCEPT !.endlist = FALSE]

\* A delivery layer that answers every failed conversion with 404.
always_retry(route_case, result) == IF result = "path" THEN "playlist" ELSE "retry404"

\* What stream_chapter_hls answers after convert_mp3_to_hls has returned result:
\* the playlist; else abort(500) for a complete source (case 2), abort(404) "retry
\* later" for a source being generated (cases 3 and 4).
route_response(route_case, result) ==
  IF result = "path" THEN "playlist"
  ELSE IF route_case = 2 THEN "error500" ELSE "retry404"

\* Request slots are taken in order.
FreeSlot(k) ==
  /\ call[k].pc = "idle"
  /\ \A k2 \in Calls : k2 < k => call[k2].pc # "idle"

\* GET /hls/<c>/stream?ts=<ts>, cases 1 to 3 of stream_chapter_hls: a complete mp3
\* without playlist is sent as it is; a complete mp3 is converted in base mode; an
\* mp3 this user is generating is converted in incremental mode.
HlsRoute(k, c, ts) ==
  /\ FreeSlot(k)
  /\ \/ /\ audio_status[c] = "complete" /\ audio_exists[c] /\ ~is_hls_exists
        /\ UNCHANGED call
     \/ /\ audio_status[c] = "complete" /\ audio_exists[c] /\ is_hls_exists
        /\ call' = [call EXCEPT ![k] =
             [CallIdle EXCEPT !.pc = "convert", !.chapter = c, !.t = ts,
                              !.route_case = 2]]
     \/ /\ ~(audio_status[c] = "complete" /\ audio_exists[c])
        /\ check_chapter_generating(HlsUser, c) /\ audio_exists[c]
        /\ call' = [call EXCEPT ![k] =
             [CallIdle EXCEPT !.pc = "convert", !.chapter = c, !.t = ts,
                              !.route_case = 3, !.is_generating = TRUE]]
  /\ UNCHANGED <<hls_lock, playlist, segment_files, hls_dir, cleanup>>
  /\ UNCHANGED nonHlsVars

\* Case 4: generate_chapter_audio is called (an old file without resume point is
\* removed, the chapter marked generating, the task registered and its threads
\* started) and the request waits for the mp3.
HlsRouteGenerate(k, t, c, ts) ==
  /\ FreeSlot(k)
  /\ StartsGeneration(HlsUser, c)
  /\ task[t].st = "free"
  /\ \A t2 \in TaskIds : t2 < t => task[t2].st # "free"
  /\ call' = [call EXCEPT ![k] =
       [CallIdle EXCEPT !.pc = "await", !.chapter = c, !.t = ts, !.route_case = 4,
                        !.is_generating = TRUE]]
  /\ task' = [task EXCEPT ![t] = [NoTaskRec EXCEPT !.st = "running",
                                                  !.user = HlsUser, !.chapter = c]]
  /\ register_task(HlsUser, c, t)
  /\ audio_status' = [audio_status EXCEPT ![c] = "generating"]
  /\ IF load_resume_point(c).present
     THEN UNCHANGED <<audio_exists, audio_data>>
     ELSE /\ audio_exists' = [audio_exists EXCEPT ![c] = FALSE]
          /\ audio_data' = [audio_data EXCEPT ![c] = <<>>]
  /\ UNCHANGED <<hls_lock, playlist, segment_files, hls_dir, cleanup>>
  /\ UNCHANGED <<resume_file, script_cache, script_queue, error_container,
                 script_complete_event, sp, ap, shape, streamVars, returned,
                 splitVars, generate_calls>>

\* The wait loop of case 4: the mp3 exists and is larger than 50KB.
HlsAwait(k) ==
  /\ call[k].pc = "await"
  /\ audio_exists[call[k].chapter] /\ audio_data[call[k].chapter] # <<>>
  /\ call' = [call EXCEPT ![k].pc = "convert"]
  /\ UNCHANGED <<hls_lock, playlist, segment_files, hls_dir, cleanup>>
  /\ UNCHANGED nonHlsVars

\* The wait loop runs out: abort(504).
HlsAwaitTimeout(k) ==
  /\ call[k].pc = "await"
  /\ ~(audio_exists[call[k].chapter] /\ audio_data[call[k].chapter] # <<>>)
  /\ call' = [call EXCEPT ![k] = CallIdle]
  /\ UNCHANGED <<hls_lock, playlist, segment_files, hls_dir, cleanup>>
  /\ UNCHANGED nonHlsVars

\* The call after subprocess.run: the command is used no more.
AfterRun(cl, returncode) ==
  [cl EXCEPT !.pc = "post", !.t = 0, !.start_time = 0, !.returncode = returncode]

\* convert_mp3_to_hls returns result: its locals are gone.
Return(cl, result) ==
  [cl EXCEPT !.pc = "respond", !.t = 0, !.start_time = 0, !.result = result]

\* A lock.acquire(blocking=False) that succeeds whoever holds the lock.
acquire_unlocked(holder) == TRUE

\* lock.acquire(blocking=False) succeeds: the lock is free.
acquire_nonblocking(holder) == holder = NoCall

\* convert_mp3_to_hls, the lock is taken.  Without mp3 it returns None, with a
\* sealed playlist it returns its path (finally: release).  Else the directory is
\* made, the start time computed from the playlist (when segment files exist)
\* plus the timestamp, and the ffmpeg command run.
HlsLockTaken(k) ==
  LET cl == call[k]
      existing_segments == count_segments
      start_time == (IF existing_segments > 0 THEN get_playlist_duration(playlist)
                     ELSE 0) + cl.t
  IN
  /\ cl.pc = "convert"
  /\ acquire_nonblocking(hls_lock)
  /\ IF ~audio_exists[cl.chapter]
     THEN /\ call' = [call EXCEPT ![k] = Return(@, "None")]
          /\ UNCHANGED <<hls_lock, hls_dir>>
     ELSE IF is_hls_ready
     THEN /\ call' = [call EXCEPT ![k] = Return(@, "path")]
          /\ UNCHANGED <<hls_lock, hls_dir>>
     ELSE /\ call' = [call EXCEPT ![k].pc = "ffmpeg", ![k].start_time = start_time]
          /\ hls_lock' = k
          /\ hls_dir' = TRUE
  /\ UNCHANGED <<playlist, segment_files, cleanup>>
  /\ UNCHANGED nonHlsVars

\* The non-blocking acquire fails: the call goes to wait for the lock.
HlsLockBusy(k) ==
  /\ call[k].pc = "convert"
  /\ ~acquire_nonblocking(hls_lock)
  /\ call' = [call EXCEPT ![k].pc = "wait", ![k].waited = TRUE]
  /\ UNCHANGED <<hls_lock, playlist, segment_files, hls_dir, cleanup>>
  /\ UNCHANGED nonHlsVars

\* A lock.acquire() that returns while the lock is held.
acquire_at_once(holder) == TRUE

\* lock.acquire() returns: the lock is free.
acquire_blocking(holder) == holder = NoCall

\* lock.acquire(); lock.release(); return the playlist path.
HlsWait(k) ==
  /\ call[k].pc = "wait"
  /\ acquire_blocking(hls_lock)
  /\ call' = [call EXCEPT ![k] = Return(@, "path")]
  /\ UNCHANGED <<hls_lock, playlist, segment_files, hls_dir, cleanup>>
  /\ UNCHANGED nonHlsVars

\* An ffmpeg run without append_list: the playlist is written anew and lists only
\* the audio that run has read.
FfmpegRewrite(pl, chapter, source, start_time, is_generating) ==
  LET avail == Len(source) - start_time
      n == IF is_generating /\ avail > SliceUnits THEN SliceUnits ELSE avail
  IN [exists |-> TRUE,
      entries |-> IF n > 0 THEN <<[file |-> 0, duration |-> n, chapter |-> chapter]>>
                  ELSE <<>>,
      endlist |-> TRUE]

\* What ffmpeg -ss start_time [-t slice] -i mp3 -f hls -hls_flags append_list leaves
\* when it exits with 0: the entries of the old playlist, then one entry for the
\* audio it read from start_time on (nothing when the mp3 ends before), and
\* #EXT-X-ENDLIST.  An entry names its segment file and its duration; the chapter
\* whose mp3 the segment was transcoded from is kept with it.
FfmpegPlaylist(pl, chapter, source, start_time, is_generating) ==
  LET avail == Len(source) - start_time
      n == IF is_generating /\ avail > SliceUnits THEN SliceUnits ELSE avail
  IN [exists |-> TRUE,
      entries |-> IF n > 0
                  THEN Append(pl.entries, [file |-> Len(pl.entries), duration |-> n,
                                           chapter |-> chapter])
                  ELSE pl.entries,
      endlist |-> TRUE]

\* subprocess.run(cmd) returns: exit status 0 with the playlist and segment files
\* extended, or a non-zero exit status.
HlsFfmpeg(k, ok) ==
  LET cl == call[k]
      pl == FfmpegPlaylist(playlist, cl.chapter, audio_data[cl.chapter], cl.start_time,
                           cl.is_generating)
  IN
  /\ cl.pc = "ffmpeg"
  /\ IF ok
     THEN /\ playlist' = pl
          /\ segment_files' = {pl.entries[i].file : i \in 1..Len(pl.entries)}
          /\ call' = [call EXCEPT ![k] = AfterRun(@, "zero")]
     ELSE /\ call' = [call EXCEPT ![k] = AfterRun(@, "nonzero")]
          /\ UNCHANGED <<playlist, segment_files>>
  /\ UNCHANGED <<hls_lock, hls_dir, cleanup>>
  /\ UNCHANGED nonHlsVars

\* A post-processing that removes the end marker in both modes.
always_remove_endlist(pl, is_generating) == remove_endlist_if_exists(pl)

\* The playlist after a successful run: the end marker is removed only when the
\* mp3 is still being generated.
after_conversion(pl, is_generating) ==
  IF is_generating THEN remove_endlist_if_exists(pl) ELSE pl

\* get_hls_status: ready (end marker present), exists, number of #EXTINF lines and
\* their sum; all false and zero without playlist.
get_hls_status(pl) ==
  [ready |-> pl.exists /\ pl.endlist,
   exists |-> pl.exists,
   segments |-> IF pl.exists THEN Len(pl.entries) ELSE 0,
   duration |-> IF pl.exists THEN SumExtinf(pl.entries) ELSE 0]

\* A release that is passed over when the subprocess has failed.
release_unless_failed(holder, returncode) ==
  IF returncode = "nonzero" THEN holder ELSE NoCall

\* finally: lock.release(), whatever the try block returned or raised.
lock_release(holder, returncode) == NoCall

\* After the subprocess: a non-zero exit returns None; else the end marker is
\* removed when the mp3 is being generated and the path returned.  finally:
\* lock.release().
HlsAfterFfmpeg(k) ==
  LET cl == call[k] IN
  /\ cl.pc = "post"
  /\ IF cl.returncode = "nonzero"
     THEN /\ call' = [call EXCEPT ![k] = Return(@, "None")]
          /\ UNCHANGED playlist
     ELSE /\ call' = [call EXCEPT ![k] = Return(@, "path")]
          /\ playlist' = after_conversion(playlist, cl.is_generating)
  /\ hls_lock' = lock_release(hls_lock, cl.returncode)
  /\ UNCHANGED <<segment_files, hls_dir, cleanup>>
  /\ UNCHANGED nonHlsVars

\* What call k, back from convert_mp3_to_hls, answers now: send_from_directory
\* reads playlist.m3u8 as it is (404 when it is missing), or abort.
Response(k) ==
  LET response == route_response(call[k].route_case, call[k].result) IN
  IF response = "playlist" /\ ~playlist.exists THEN "notfound404" ELSE response

\* stream_chapter_hls answers and the request ends.
HlsRespond(k) ==
  /\ call[k].pc = "respond"
  /\ Response(k) \in {"playlist", "notfound404", "retry404", "error500"}
  /\ call' = [call EXCEPT ![k] = CallIdle]
  /\ UNCHANGED <<hls_lock, playlist, segment_files, hls_dir, cleanup>>
  /\ UNCHANGED nonHlsVars

\* GET /hls/clear: cleanup_chapter_hls finds the user's directory.
CleanupStart ==
  /\ cleanup = "idle"
  /\ hls_dir
  /\ cleanup' = "acquire"
  /\ UNCHANGED <<hls_lock, playlist, segment_files, hls_dir, call>>
  /\ UNCHANGED nonHlsVars

\* lock.acquire() returns.
CleanupLocked ==
  /\ cleanup = "acquire"
  /\ acquire_blocking(hls_lock)
  /\ hls_lock' = CleanupId
  /\ cleanup' = "rmtree"
  /\ UNCHANGED <<playlist, segment_files, hls_dir, call>>
  /\ UNCHANGED nonHlsVars

\* shutil.rmtree(hls_dir); lock.release().
CleanupDone ==
  /\ cleanup = "rmtree"
  /\ playlist' = NoPlaylist
  /\ segment_files' = {}
  /\ hls_dir' = FALSE
  /\ hls_lock' = NoCall
  /\ cleanup' = "idle"
  /\ UNCHANGED call
  /\ UNCHANGED nonHlsVars

\* ------------------------------------------------- the mp3 as hls_manager sees it
\* The audio stage of a task writes the next part of the chapter's audio.
SourceWrite(t) ==
  LET c == task[t].chapter IN
  /\ task[t].st = "running" /\ ~cancel_event[t]
  /\ Len(audio_data[c]) < NumChunks
  /\ audio_exists' = [audio_exists EXCEPT ![c] = TRUE]
  /\ audio_data' = [audio_data EXCEPT ![c] = Append(@, <<0, 0, Len(@)>>)]
  /\ UNCHANGED <<audio_status, pipelineVars, streamVars, restVars>>

\* The task's threads are gone and nothing refers to its cancel flag any more.
SourceEnded == [NoTaskRec EXCEPT !.st = "ended"]

\* The audio stage dequeues Done after the last part: the chapter is complete and
\* the task cleared.
SourceDone(t) ==
  LET c == task[t].chapter IN
  /\ task[t].st = "running" /\ ~cancel_event[t]
  /\ audio_exists[c] /\ Len(audio_data[c]) = NumChunks
  /\ audio_status' = [audio_status EXCEPT ![c] = "complete"]
  /\ tasks' = clear_task(tasks, task[t].user, c)
  /\ task' = [task EXCEPT ![t] = SourceEnded]
  /\ UNCHANGED <<audio_exists, audio_data, resume_file, script_cache, cancel_event,
                 script_queue, error_container, script_complete_event, sp, ap, shape,
                 streamVars, restVars>>

\* The audio stage of a cancelled (superseded) task leaves its loop: the chapter is
\* marked failed and the task cleared.
SourceStop(t) ==
  LET c == task[t].chapter IN
  /\ task[t].st = "running" /\ cancel_event[t]
  /\ audio_status' = [audio_status EXCEPT ![c] = "failed"]
  /\ tasks' = clear_task(tasks, task[t].user, c)
  /\ task' = [task EXCEPT ![t] = SourceEnded]
  /\ cancel_event' = [cancel_event EXCEPT ![t] = FALSE]
  /\ UNCHANGED <<audio_exists, audio_data, resume_file, script_cache,
                 script_queue, error_container, script_complete_event, sp, ap, shape,
                 streamVars, restVars>>

\* The server process dies: the daemon threads of every task stop where they are,
\* the in-memory admission map and whatever is still in a write buffer are lost;
\* files and the database stay as they are.
Crash ==
  /\ \E t \in TaskIds : task[t].st \in {"loaded", "running"}
  /\ tasks' = [u \in Users |-> NoTask]
  /\ task' = [t \in TaskIds |->
               IF task[t].st = "free" THEN task[t] ELSE RetiredTask(task[t])]
  /\ sp' = [t \in TaskIds |-> IF task[t].st = "free" THEN sp[t] ELSE RetiredScript]
  /\ ap' = [t \in TaskIds |-> IF task[t].st = "free" THEN ap[t] ELSE RetiredAudio(ap[t])]
  /\ script_queue' = [t \in TaskIds |-> <<>>]
  /\ error_container' = [t \in TaskIds |-> "none"]
  /\ script_complete_event' = [t \in TaskIds |-> FALSE]
  /\ UNCHANGED <<audio_status, audio_exists, audio_data, resume_file, script_cache,
                 cancel_event>>
  /\ UNCHANGED <<shape, streamVars, restVars>>

\* ------------------------------------------------- _split_content_into_segments
\* target_lengths: the staged target lengths of the first two segments.
target_lengths == <<200, 400>>

\* max_length, the target length of the later segments (default_length).
default_length == 1500

\* The least length of a later segment before it can be closed.
later_min_length == 200

\* A last segment shorter than this is merged into the one before it.
short_tail == 100

\* [p.strip() for p in content.split('\n') if p.strip()]: the non-blank lines, in
\* order, each with its place in the text and its length.
NonBlank(line) == line.len > 0

Paragraphs(text) ==
  SelectSeq([i \in 1..Len(text) |-> [id |-> i, len |-> text[i]]], NonBlank)

\* len() of paragraphs joined with "\n".
RECURSIVE JoinedLen(_)
JoinedLen(seg) ==
  IF seg = <<>> THEN 0
  ELSE IF Len(seg) = 1 THEN seg[1].len
  ELSE LET half == Len(seg) \div 2
       IN JoinedLen(SubSeq(seg, 1, half)) + 1
          + JoinedLen(SubSeq(seg, half + 1, Len(seg)))

\* A single target length of 1500 for every segment.
target_unstaged(segment_index) == default_length

\* current_target: 200, 400, then max_length.
current_target(segment_index) ==
  IF segment_index < Len(target_lengths) THEN target_lengths[segment_index + 1]
  ELSE default_length

\* A segment that can be closed whatever its length.
min_length_none(segment_index) == 0

\* min_length: int(current_target * 0.7) for the first two segments, then 200.
min_length(segment_index) ==
  IF segment_index < Len(target_lengths)
  THEN (current_target(segment_index) * 7) \div 10
  ELSE later_min_length

\* max_target: int(current_target * 1.3) for the first two segments, then
\* max_length.
max_target(segment_index) ==
  IF segment_index < Len(target_lengths)
  THEN (current_target(segment_index) * 13) \div 10
  ELSE default_length

\* A next segment that starts empty: the paragraph that closed the segment is
\* dropped.
StartEmpty(paragraph) == <<>>

\* current_segment = paragraph, after a segment is closed.
StartNext(paragraph) == <<paragraph>>

\* A segment that is closed only before a paragraph that would take it over
\* max_target.
finish_past_max(cur, paragraph, segment_index) ==
  /\ cur # <<>>
  /\ JoinedLen(cur) + paragraph.len + 1 > max_target(segment_index)
  /\ JoinedLen(cur) >= min_length(segment_index)

\* should_finish for the paragraph at hand: the segment under construction is
\* long enough and the paragraph would take it over the limit.
should_finish(cur, paragraph, segment_index) ==
  LET potential_length == IF cur # <<>> THEN JoinedLen(cur) + paragraph.len + 1
                          ELSE paragraph.len
  IN IF potential_length > max_target(segment_index) /\ cur # <<>>
     THEN JoinedLen(cur) >= min_length(segment_index)
     ELSE /\ JoinedLen(cur) >= min_length(segment_index)
          /\ potential_length > current_target(segment_index)

\* A last segment that is appended whatever its length.
KeepShortTail(segs, cur) == Append(segs, cur)

\* The last segment: merged into the one before it when it is shorter than 100
\* and there is one, else appended.
AddLastSegment(segs, cur) ==
  IF JoinedLen(cur) < short_tail /\ segs # <<>>
  THEN [segs EXCEPT ![Len(segs)] = @ \o cur]
  ELSE Append(segs, cur)

\* _split_content_into_segments(content) is called: [] is returned for a text
\* without paragraph, else the loop starts.
SplitStart ==
  /\ split.pc = "input"
  /\ IF Paragraphs(content) = <<>>
     THEN split' = [split EXCEPT !.pc = "done"]
     ELSE split' = [split EXCEPT !.pc = "loop", !.paragraphs = Paragraphs(content),
                                 !.i = 1]
  /\ UNCHANGED <<content, segments>>
  /\ UNCHANGED <<audio_status, audio_exists, audio_data, pipelineVars, streamVars,
                 returned, hlsVars, generate_calls>>

\* One pass of the loop over the paragraphs: the segment under construction is
\* closed before the paragraph, or the paragraph is added to it.
SplitParagraph ==
  LET paragraph == split.paragraphs[split.i]
      cur == split.current_segment
  IN
  /\ split.pc = "loop"
  /\ split.i <= Len(split.paragraphs)
  /\ IF should_finish(cur, paragraph, split.segment_index)
     THEN /\ segments' = Append(segments, cur)
          /\ split' = [split EXCEPT !.current_segment = StartNext(paragraph),
                                    !.segment_index = @ + 1, !.i = @ + 1]
     ELSE /\ split' = [split EXCEPT !.current_segment = Append(cur, paragraph),
                                    !.i = @ + 1]
          /\ UNCHANGED segments
  /\ UNCHANGED content
  /\ UNCHANGED <<audio_status, audio_exists, audio_data, pipelineVars, streamVars,
                 returned, hlsVars, generate_calls>>

\* After the loop: the last segment is added and the list returned.
SplitEnd ==
  /\ split.pc = "loop"
  /\ split.i > Len(split.paragraphs)
  /\ segments' = IF split.current_segment # <<>>
                 THEN AddLastSegment(segments, split.current_segment)
                 ELSE segments
  /\ split' = [split EXCEPT !.pc = "done", !.paragraphs = <<>>, !.i = 0,
                            !.current_segment = <<>>, !.segment_index = 0]
  /\ UNCHANGED content
  /\ UNCHANGED <<audio_status, audio_exists, audio_data, pipelineVars, streamVars,
                 returned, hlsVars, generate_calls>>

\* ------------------------------------------------- specification
\* A new request arrives only when no task is in progress (sequential use by one
\* user of one chapter).
Quiet == \A t \in TaskIds : task[t].st \in {"free", "ended"}

Step ==
  \/ \E t \in TaskIds, u \in Users, c \in Chapters : ReqStart(t, u, c)
  \/ \E t \in TaskIds : ReqContentError(t)
  \/ \E u \in Users, c \in Chapters : CancelRequest(u, c)
  \/ Crash
  \/ \E t \in TaskIds :
       \/ Register(t)
       \/ ScriptSegment(t) \/ ScriptSkip(t) \/ ScriptException(t)
       \/ ScriptPutError(t) \/ ScriptDone(t)
       \/ AudioOpen(t) \/ AudioLoop(t) \/ AudioTimeout(t)
       \/ AudioGetError(t) \/ AudioGetDone(t) \/ AudioGetScript(t)
       \/ SynthChunk(t) \/ SynthCallback(t) \/ SynthFail(t)
       \/ AudioExit(t)

StepSeq ==
  \/ \E t \in TaskIds : Quiet /\ ReqStart(t, "u1", "X")
  \/ \E t \in TaskIds : ReqContentError(t)
  \/ CancelRequest("u1", "X")
  \/ Crash
  \/ \E t \in TaskIds :
       \/ Register(t)
       \/ ScriptSegment(t) \/ ScriptSkip(t) \/ ScriptException(t)
       \/ ScriptPutError(t) \/ ScriptDone(t)
       \/ AudioOpen(t) \/ AudioLoop(t) \/ AudioTimeout(t)
       \/ AudioGetError(t) \/ AudioGetDone(t) \/ AudioGetScript(t)
       \/ SynthChunk(t) \/ SynthCallback(t) \/ SynthFail(t)
       \/ AudioExit(t)

Next == Step

NextSeq == StepSeq

\* Any interleaving of requests of all users for all chapters, short chapters.
Spec == Init /\ [][Next]_vars

\* One user, one chapter, one task at a time, long chapters.
SpecResume == InitLong /\ [][NextSeq]_vars

\* The steps of the readers and of the streaming client.
ReaderNext ==
  \/ \E r \in Readers :
       \/ ReaderStart(r) \/ ReaderRead(r) \/ ReaderCheck(r) \/ ReaderSize(r)
       \/ ReaderDisconnect(r)
  \/ ClientGet \/ ClientTimeout \/ ClientDisconnect

NextStream ==
  \/ StreamStart \/ StreamSuperseded
  \/ ProducerCancel \/ ProducerGetScript \/ ProducerGetError \/ ProducerGetDone
  \/ ProducerChunk \/ ProducerSynthFail \/ ProducerPutDone
  \/ WriterOpen \/ WriterCancel \/ WriterGet \/ WriterPost
  \/ ReaderNext

\* Long-running generation behind the /stream route.
InitStream ==
  /\ InitState
  /\ shape = [segs |-> MaxSegs, items |-> 1, chunks |-> 1]

\* The /stream route for one chapter: generation, streaming client, readers.
SpecStream == InitStream /\ [][NextStream]_vars

\* ------------------------------------------------- admission manager alone
\* The manager's three methods called in any order by any callers: a caller
\* registers a fresh event for (user, chapter), cancels (user, chapter), or a
\* registered task clears itself.
MgrRegister(t, u, c) ==
  /\ task[t].st = "free"
  /\ \A t2 \in TaskIds : t2 < t => task[t2].st # "free"
  /\ task' = [task EXCEPT ![t] = [NoTaskRec EXCEPT !.st = "registered",
                                                  !.user = u, !.chapter = c]]
  /\ register_task(u, c, t)
  /\ UNCHANGED <<audio_status, audio_exists, audio_data, resume_file, script_cache,
                 script_queue, error_container, script_complete_event, sp, ap>>
  /\ UNCHANGED <<shape, streamVars, restVars>>

MgrClear(t) ==
  /\ task[t].st = "registered"
  /\ task' = [task EXCEPT ![t].st = "ended"]
  /\ tasks' = clear_task(tasks, task[t].user, task[t].chapter)
  /\ UNCHANGED <<audio_status, audio_exists, audio_data, resume_file, script_cache,
                 cancel_event, script_queue, error_container, script_complete_event,
                 sp, ap>>
  /\ UNCHANGED <<shape, streamVars, restVars>>

\* cancel_chapter_generation(user, chapter) with its return value.
MgrCancel(u, c) ==
  /\ cancel_task(u, c)
  /\ returned' = [user |-> u, chapter |-> c, value |-> cancel_task_result(u, c)]
  /\ UNCHANGED <<audio_status, audio_exists, audio_data, resume_file, script_cache,
                 task, script_queue, error_container, script_complete_event, sp, ap>>
  /\ UNCHANGED <<shape, streamVars, hlsVars, splitVars, generate_calls>>

NextManager ==
  \/ \E t \in TaskIds, u \in Users, c \in Chapters : MgrRegister(t, u, c)
  \/ \E u \in Users, c \in Chapters : MgrCancel(u, c)
  \/ \E t \in TaskIds : MgrClear(t)

SpecManager == Init /\ [][NextManager]_vars

\* The /hls routes for one user, one request at a time: requests for both
\* chapters, with any timestamp, the cache cleanup running beside them, and the
\* generations the requests start.
Timestamps == 0..MaxOffset

OneCall == CHOOSE k \in Calls : \A k2 \in Calls : k <= k2

NextHls ==
  \/ \E c \in Chapters, ts \in Timestamps : HlsRoute(OneCall, c, ts)
  \/ \E t \in TaskIds, c \in Chapters, ts \in Timestamps :
       HlsRouteGenerate(OneCall, t, c, ts)
  \/ HlsAwait(OneCall) \/ HlsAwaitTimeout(OneCall)
  \/ HlsLockTaken(OneCall) \/ HlsLockBusy(OneCall) \/ HlsWait(OneCall)
  \/ HlsFfmpeg(OneCall, TRUE) \/ HlsFfmpeg(OneCall, FALSE)
  \/ HlsAfterFfmpeg(OneCall) \/ HlsRespond(OneCall)
  \/ CleanupStart \/ CleanupLocked \/ CleanupDone
  \/ \E t \in TaskIds : SourceWrite(t) \/ SourceDone(t) \/ SourceStop(t)

InitHls ==
  /\ InitState
  /\ shape \in [segs : {1}, items : {1}, chunks : 1..MaxChunks]

SpecHls == InitHls /\ [][NextHls]_vars

\* Concurrent requests of one user for a complete chapter (X) and for a chapter
\* under generation (Y), with the cache cleanup: the requests are those of cases
\* 1 to 3 of the route, and the generation of Y goes on to its end.
FirstTask == CHOOSE t \in TaskIds : \A t2 \in TaskIds : t <= t2

InitHlsLock ==
  /\ InitOther
  /\ content = <<>>
  /\ generate_calls = NoCalls(FALSE)
  /\ shape = [segs |-> 1, items |-> 1, chunks |-> MaxChunks]
  /\ audio_status = [c \in Chapters |-> IF c = "X" THEN "complete" ELSE "generating"]
  /\ audio_exists = [c \in Chapters |-> TRUE]
  /\ audio_data = [c \in Chapters |->
                     [i \in 1..(IF c = "X" THEN MaxChunks ELSE 1) |-> <<0, 0, i - 1>>]]
  /\ tasks = [u \in Users |-> IF u = HlsUser THEN FirstTask ELSE NoTask]
  /\ task = [t \in TaskIds |->
               IF t = FirstTask
               THEN [NoTaskRec EXCEPT !.st = "running", !.user = HlsUser, !.chapter = "Y"]
               ELSE NoTaskRec]

NextHlsLock ==
  \/ \E k \in Calls, c \in Chapters, ts \in Timestamps : HlsRoute(k, c, ts)
  \/ \E k \in Calls :
       \/ HlsLockTaken(k) \/ HlsLockBusy(k) \/ HlsWait(k)
       \/ HlsFfmpeg(k, TRUE) \/ HlsFfmpeg(k, FALSE)
       \/ HlsAfterFfmpeg(k) \/ HlsRespond(k)
  \/ CleanupStart \/ CleanupLocked \/ CleanupDone
  \/ \E t \in TaskIds : SourceWrite(t) \/ SourceDone(t)

SpecHlsLock == InitHlsLock /\ [][NextHlsLock]_vars

\* The steps of a request that do not wait for the lock.
HlsStep(k) ==
  \/ HlsLockTaken(k) \/ HlsLockBusy(k)
  \/ HlsFfmpeg(k, TRUE) \/ HlsFfmpeg(k, FALSE)
  \/ HlsAfterFfmpeg(k) \/ HlsRespond(k)

\* The same requests, all from the start of the audio (timestamp 0).
NextHlsLive ==
  \/ \E k \in Calls, c \in Chapters : HlsRoute(k, c, 0)
  \/ \E k \in Calls : HlsStep(k) \/ HlsWait(k)
  \/ CleanupStart \/ CleanupLocked \/ CleanupDone
  \/ \E t \in TaskIds : SourceWrite(t) \/ SourceDone(t)

\* The requests with their threads scheduled: a request or a cleanup that can go
\* on does so (the ffmpeg subprocess ends, rmtree returns), and a thread blocked
\* in lock.acquire() obtains the lock when it is released again and again.
SpecHlsLive ==
  /\ InitHlsLock /\ [][NextHlsLive]_vars
  /\ \A k \in Calls : WF_vars(HlsStep(k)) /\ SF_vars(HlsWait(k))
  /\ WF_vars(CleanupDone) /\ SF_vars(CleanupLocked)

\* The segmenter applied to chapter texts: every text of at most MaxLines lines
\* with lengths around the thresholds of the first segment (0: a blank line),
\* and texts of 3,600 characters made of paragraphs of two alternating lengths.
LineLengths == {0, 40, 99, 121, 150, 270}

ShortTexts == UNION {[1..n -> LineLengths] : n \in 0..MaxLines}

ChapterLength == 3600

FillSizes == {20, 35, 50, 64, 80, 99, 119, 200, 700, 1800, 3600}

\* Characters taken by the first k paragraphs of lengths a, b, a, b, .., each
\* with its newline.
FillUsed(k, a, b) == (k \div 2) * (a + b + 2) + (k % 2) * (a + 1)

\* Paragraphs of lengths a, b, a, b, .. that fill ChapterLength characters,
\* newlines included; the last paragraph takes what is left.
Fill(a, b) ==
  LET size(k) == IF k % 2 = 1 THEN a ELSE b
      n == CHOOSE k \in 1..ChapterLength :
             /\ FillUsed(k - 1, a, b) < ChapterLength
             /\ ChapterLength - FillUsed(k - 1, a, b) <= size(k) + 1
  IN [i \in 1..n |-> IF i < n THEN size(i) ELSE ChapterLength - FillUsed(n - 1, a, b)]

LongTexts == {Fill(a, b) : a, b \in FillSizes}

InitSegment ==
  /\ InitSource /\ InitOther
  /\ generate_calls = NoCalls(FALSE)
  /\ shape = [segs |-> 1, items |-> 1, chunks |-> 1]
  /\ content \in ShortTexts \cup LongTexts

\* One user, one chapter, one task at a time, one utterance of one chunk per
\* segment; the calls of generate_voice_script are counted.
InitScript ==
  /\ InitSource /\ InitOther /\ content = <<>>
  /\ generate_calls = NoCalls(TRUE)
  /\ shape \in [segs : 1..MaxSegs, items : {1}, chunks : {1}]

SpecScript == InitScript /\ [][NextSeq]_vars

\* The steps of a task's two threads.
ScriptStep(t) ==
  \/ ScriptSegment(t) \/ ScriptSkip(t) \/ ScriptException(t)
  \/ ScriptPutError(t) \/ ScriptDone(t)

AudioStep(t) ==
  \/ AudioOpen(t) \/ AudioLoop(t) \/ AudioTimeout(t)
  \/ AudioGetError(t) \/ AudioGetDone(t) \/ AudioGetScript(t)
  \/ SynthChunk(t) \/ SynthCallback(t) \/ SynthFail(t)
  \/ AudioExit(t)

\* Two requests of one user, for any chapters, at any moments, with explicit
\* cancels; chapters of one segment of one utterance of one chunk; the process
\* stays up.
LiveTasks == {1, 2}

LiveUser == "u1"

InitLive ==
  /\ InitState
  /\ shape = [segs |-> 1, items |-> 1, chunks |-> 1]

NextLive ==
  \/ \E t \in LiveTasks, c \in Chapters : ReqStart(t, LiveUser, c)
  \/ \E t \in TaskIds : ReqContentError(t)
  \/ \E c \in Chapters : CancelRequest(LiveUser, c)
  \/ \E t \in TaskIds : Register(t) \/ ScriptStep(t) \/ AudioStep(t)

\* Every thread that can take a step is scheduled: the script_producer thread,
\* and the request's thread followed by the audio_producer thread it starts (the
\* calls of the LLM and of the TTS backend return or raise).
SpecLive ==
  /\ InitLive /\ [][NextLive]_vars
  /\ \A t \in LiveTasks :
       /\ WF_vars(ScriptStep(t))
       /\ WF_vars(Register(t) \/ ReqContentError(t) \/ AudioStep(t))

NextSegment == SplitStart \/ SplitParagraph \/ SplitEnd

SpecSegment == InitSegment /\ [][NextSegment]_vars

\* ------------------------------------------------- properties
\* A task is active: started, cancel flag unset, and a worker still running.
Active(t) ==
  /\ task[t].st = "running"
  /\ ~cancel_event[t]
  /\ (sp[t].pc # "end" \/ ap[t].pc # "done")

\* C1: for every user, at every moment, at most one generation task started for
\* that user is active, under any interleaving of delivery requests.
C1_OneActiveTaskPerUser ==
  \A t1, t2 \in TaskIds :
    (Active(t1) /\ Active(t2) /\ task[t1].user = task[t2].user) => t1 = t2

\* C2: a register(U, Y) executed while U's stored task A is for another chapter X
\* sets A's cancel flag and leaves the new task B, for chapter Y and with its own
\* cancel flag unset, as the one entry of U in the admission map.
C2_RegisterSupersedes ==
  [][\A u \in Users :
       LET A == tasks[u]
           B == tasks'[u]
       IN (/\ B # A /\ B # NoTask /\ A # NoTask
           /\ task[A].chapter # task'[B].chapter)
          => /\ cancel_event'[A]
             /\ ~cancel_event'[B]
             /\ task'[B].user = u
             /\ \A u2 \in Users \ {u} : tasks'[u2] = tasks[u2]]_vars

\* A supersession has happened: u1's entry is a task with its flag unset while an
\* earlier task of u1 for another chapter has its flag set.
C2_Witness ==
  \E A, B \in TaskIds :
    /\ A < B /\ tasks["u1"] = B
    /\ task[A].user = "u1" /\ task[B].user = "u1"
    /\ task[A].st = "registered" /\ task[B].st = "registered"
    /\ task[A].chapter # task[B].chapter
    /\ cancel_event[A] /\ ~cancel_event[B]

\* The chunks of utterance j of segment i, in the order the backend streams them.
ItemChunks(i, j) == [n \in 1..NumChunks |-> <<i, j, n - 1>>]

\* The chunks of every utterance from utterance j of segment i to the chapter's end.
RECURSIVE ChunksFrom(_, _)
ChunksFrom(i, j) ==
  IF i >= NumSegs THEN <<>>
  ELSE IF j >= NumItems THEN ChunksFrom(i + 1, 0)
  ELSE ItemChunks(i, j) \o ChunksFrom(i, j + 1)

C9_DoneCompletes ==
  [][\A t \in TaskIds :
       (/\ ap[t].pc = "get" /\ ap'[t].pc = "exit"
        /\ script_queue[t] # <<>> /\ Head(script_queue[t]).tag = "done")
       => /\ audio_status'[task[t].chapter] = "complete"
          /\ ~resume_file'[task[t].chapter].present]_vars

C5_ReaderReceivesAll ==
  \A r \in Readers :
    (/\ reader[r].pc = "ended" /\ reader[r].why # "disconnected"
     /\ reader[r].run = stream_run
     /\ audio_status[StreamChapter] = "complete" /\ audio_exists[StreamChapter])
    => reader[r].emitted = audio_data[StreamChapter]

\* C5 amended: while the generation a reader started under is the current one,
\* what the reader has emitted is a prefix of the file (in order, no gap, no
\* repetition); a reader that ends on finding the chapter complete has emitted
\* the whole finished file.  (A reader may end earlier: stall, missing file.)
C5_ReaderCompleteUnlessStalled ==
  \A r \in Readers :
    LET f == audio_data[StreamChapter]
        e == reader[r].emitted
    IN (reader[r].pc # "idle" /\ reader[r].run = stream_run)
       => /\ audio_exists[StreamChapter] =>
               (Len(e) <= Len(f) /\ e = SubSeq(f, 1, Len(e)))
          /\ (reader[r].pc = "ended" /\ reader[r].why = "complete") =>
               /\ audio_status[StreamChapter] = "complete"
               /\ audio_exists[StreamChapter]
               /\ e = f

\* A reader has ended on finding the chapter complete, with the whole file emitted.
C5_Witness ==
  \E r \in Readers :
    /\ reader[r].pc = "ended" /\ reader[r].why = "complete"
    /\ reader[r].run = stream_run
    /\ Len(reader[r].emitted) = NumSegs
    /\ reader[r].emitted = audio_data[StreamChapter]

\* C6: no step of a reader or of the streaming client (start, read, stall,
\* termination, disconnect) changes a cancel flag, the chapter's status, an
\* admission map, the file or the state of a generating thread, and a full client
\* queue never keeps the file writer from taking its next message.
C6_ReadersLeaveGeneration ==
  /\ []((fw.pc = "loop" /\ ~stream_cancel_event /\ audio_queue # <<>>)
         => ENABLED WriterGet)
  /\ [][ReaderNext =>
         UNCHANGED <<stream_cancel_event, cancel_event, audio_status, tasks,
                     stream_tasks, audio_exists, audio_data, fw, producer,
                     audio_queue, complete_event, stream_error, stream_run,
                     pipelineVars>>]_vars

\* The generation has completed although a reader was disconnected and the
\* streaming client left its queue full.
C6_Witness ==
  /\ \E r \in Readers : /\ reader[r].pc = "ended" /\ reader[r].why = "disconnected"
                         /\ reader[r].run = stream_run
  /\ Len(client_queue) = StreamQueueCap
  /\ fw.pc = "end" /\ fw.file_complete
  /\ audio_status[StreamChapter] = "complete"
  /\ Len(audio_data[StreamChapter]) = NumSegs

\* C11: a task whose cancel flag is set never comes to a point where one of its
\* stages has terminated and the other neither has terminated nor can take a
\* step (so that both stages eventually terminate).
C11_CancelledStagesTerminate ==
  \A t \in TaskIds :
    (task[t].st = "running" /\ cancel_event[t] /\ ap[t].pc = "done")
    => \/ sp[t].pc = "end"
       \/ ENABLED (ScriptSegment(t) \/ ScriptSkip(t) \/ ScriptPutError(t)
                    \/ ScriptDone(t))

\* C12: cancel(user, chapter) returns false and changes no cancel flag and not the
\* admission map when the user has no stored task or the stored task is for
\* another chapter; it returns true, sets the stored task's cancel flag and changes
\* nothing else when the stored task is for that chapter.
C12_CancelOnlyMatching ==
  [][\A u \in Users, c \in Chapters :
       MgrCancel(u, c) =>
         LET stored == tasks[u]
             matches == stored # NoTask /\ task[stored].chapter = c
         IN /\ tasks' = tasks
            /\ returned'.value = matches
            /\ cancel_event' = IF matches
                                THEN [cancel_event EXCEPT ![stored] = TRUE]
                                ELSE cancel_event]_vars

\* A cancel for another chapter than the stored task's has returned false and the
\* stored task's flag is unset.
C12_Witness ==
  /\ returned.user \in Users /\ ~returned.value
  /\ tasks[returned.user] # NoTask
  /\ task[tasks[returned.user]].chapter # returned.chapter
  /\ ~cancel_event[tasks[returned.user]]

\* C13: clear(user, chapter) removes the user's entry if and only if the stored
\* entry is for that chapter, otherwise leaves the map unchanged, and never
\* changes a cancel flag.
C13_ClearOnlyMatching ==
  [][\A t \in TaskIds :
       MgrClear(t) =>
         LET u == task[t].user
             stored == tasks[u]
         IN /\ cancel_event' = cancel_event
            /\ tasks' = IF stored # NoTask /\ task[stored].chapter = task[t].chapter
                         THEN [tasks EXCEPT ![u] = NoTask]
                         ELSE tasks]_vars

\* A superseded task has called clear and the entry of its successor, for another
\* chapter, is still stored.
C13_Witness ==
  \E t \in TaskIds :
    /\ task[t].st = "ended"
    /\ tasks[task[t].user] # NoTask
    /\ task[tasks[task[t].user]].chapter # task[t].chapter

\* C14: over the life of a task clear(user, chapter) is invoked exactly once: the
\* audio stage, which always calls it after its loop, on the way to its return,
\* has not called it before.
C14_ClearExactlyOnce ==
  \A t \in TaskIds :
    /\ ap[t].clear_calls <= 1
    /\ ap[t].pc = "exit" => ap[t].clear_calls = 0

\* A chapter whose audio is still being generated for the user.
StillGenerating(c) ==
  /\ c \in Chapters
  /\ audio_status[c] = "generating"
  /\ check_chapter_generating(HlsUser, c)
  /\ ~cancel_event[tasks[HlsUser]]
  /\ Len(audio_data[c]) < NumChunks

\* C15: whenever the delivery path serves a playlist for a chapter whose audio is
\* still generating (incremental mode), that playlist contains no end marker,
\* whatever conversions the same user ran before.
C15_NoEndMarkerWhileGenerating ==
  \A k \in Calls :
    (/\ call[k].pc = "respond"
     /\ call[k].is_generating
     /\ StillGenerating(call[k].chapter)
     /\ Response(k) = "playlist")
    => ~playlist.endlist

\* C16: every segmenter invocation starts reading the source at D+t, where D is
\* the sum of the duration directives in the user's playlist at the moment of the
\* call (0 when no playlist exists) and t the offset the caller supplied.
C16_StartsAtDPlusT ==
  \A k \in Calls :
    call[k].pc = "ffmpeg"
    => call[k].start_time =
         (IF playlist.exists THEN SumExtinf(playlist.entries) ELSE 0) + call[k].t

C16_Witness ==
  \E k \in Calls :
    /\ call[k].pc = "ffmpeg"
    /\ call[k].t > 0
    /\ Len(playlist.entries) > 1
    /\ call[k].start_time = SumExtinf(playlist.entries) + call[k].t

\* A successful incremental invocation of call k has run: its ffmpeg exited with
\* 0 in this step.
IncrementalRun(k) ==
  /\ call[k].pc = "ffmpeg" /\ call[k].is_generating
  /\ call'[k].pc = "post" /\ call'[k].returncode = "zero"

\* The entries of the playlist before the step are still there, in the same
\* order, and no segment file is listed twice.
AppendOnly ==
  /\ Len(playlist'.entries) >= Len(playlist.entries)
  /\ \A i \in 1..Len(playlist.entries) : playlist'.entries[i] = playlist.entries[i]
  /\ \A i, j \in 1..Len(playlist'.entries) :
       playlist'.entries[i].file = playlist'.entries[j].file => i = j

\* C17 as stated: after each successful incremental invocation every entry that
\* was present before is still present, in the same order and listed once, and
\* the cumulative duration is strictly larger than before the invocation.
C17_StrictlyLonger ==
  [][\A k \in Calls :
       IncrementalRun(k)
       => /\ AppendOnly
          /\ SumExtinf(playlist'.entries) > SumExtinf(playlist.entries)]_vars

\* C17, amended: after each successful incremental invocation every entry that
\* was present before is still present, in the same order and listed once, and
\* the cumulative duration is not smaller than before; it is strictly larger when
\* the source holds audio beyond the start position D+t of the invocation.
C17_AppendOnly ==
  [][\A k \in Calls :
       IncrementalRun(k)
       => /\ AppendOnly
          /\ SumExtinf(playlist'.entries) >= SumExtinf(playlist.entries)
          /\ Len(audio_data[call[k].chapter]) > call[k].start_time
             => SumExtinf(playlist'.entries) > SumExtinf(playlist.entries)]_vars

C17_Witness ==
  \E k \in Calls :
    /\ call[k].pc = "post" /\ call[k].is_generating /\ call[k].returncode = "zero"
    /\ Len(playlist.entries) > 1

\* The conversion calls whose segmenter subprocess is running or whose playlist
\* post-processing is under way.
Converting == {k \in Calls : call[k].pc \in {"ffmpeg", "post"}}

\* C18: at most one segmenter invocation or cache cleanup operates on the user's
\* playlist and segment files at any moment, under any interleaving of
\* concurrent conversion and cleanup requests.
C18_OneOperatorOnCache ==
  /\ Cardinality(Converting) <= 1
  /\ cleanup = "rmtree" => Converting = {}

C18_Witness ==
  \E k1, k2 \in Calls :
    /\ call[k1].pc = "ffmpeg"
    /\ call[k2].pc = "wait"
    /\ cleanup = "acquire"

\* C19: a conversion call that finds the user's lock held runs no segmenter
\* subprocess itself, returns only after the invocation in flight has released
\* the lock, and returns the playlist as that invocation left it.
C19_WaiterReturnsCurrentPlaylist ==
  [][\A k \in Calls :
       /\ call'[k].waited
          => /\ call'[k].pc \in {"wait", "respond"}
             /\ call'[k].returncode = "none"
       /\ (call[k].pc = "wait" /\ call'[k].pc # "wait")
          => /\ Converting = {} /\ cleanup # "rmtree"
             /\ call'[k].pc = "respond" /\ call'[k].result = "path"
             /\ playlist' = playlist /\ segment_files' = segment_files]_vars

C19_Witness ==
  \E k \in Calls :
    /\ call[k].pc = "respond" /\ call[k].waited /\ call[k].result = "path"
    /\ playlist.exists /\ playlist.entries # <<>>

\* Call k is back from a conversion whose segmenter subprocess exited non-zero.
FailedRun(k) == call[k].pc = "respond" /\ call[k].returncode = "nonzero"

\* C20 as stated: whenever the segmenter subprocess exits non-zero, the conversion
\* reports failure (no playlist path) and the delivery layer answers with the
\* retry-later response, both when the source is complete and when it is still
\* generating.
C20_FailureMeansRetryLater ==
  \A k \in Calls :
    FailedRun(k) => call[k].result = "None" /\ Response(k) = "retry404"

\* C20, amended: whenever the segmenter subprocess exits non-zero, the conversion
\* reports failure (no playlist path); the delivery layer answers with the
\* retry-later response (404) when the source is still generating and with a
\* server error (500) when the source is complete.
C20_FailureByCase ==
  \A k \in Calls :
    FailedRun(k)
    => /\ call[k].result = "None"
       /\ call[k].is_generating => Response(k) = "retry404"
       /\ ~call[k].is_generating => Response(k) = "error500"

C20_Witness ==
  \E k \in Calls : FailedRun(k) /\ ~call[k].is_generating /\ playlist.exists

\* The ffmpeg of a base-mode conversion (complete source) exits with 0 in this
\* step.
BaseRun(k) ==
  /\ call[k].pc = "ffmpeg" /\ ~call[k].is_generating
  /\ call'[k].pc = "post" /\ call'[k].returncode = "zero"

\* Call k returns from a successful base-mode conversion in this step.
BaseRunReturns(k) ==
  /\ call[k].pc = "post" /\ ~call[k].is_generating /\ call[k].returncode = "zero"
  /\ call'[k].pc = "respond"

\* The call returns the playlist path, and the playlist exists and is sealed.
ReturnsSealed(k) ==
  /\ call'[k].result = "path"
  /\ get_hls_status(playlist').exists /\ get_hls_status(playlist').ready
  /\ get_hls_status(playlist').segments = get_hls_status(playlist).segments
  /\ get_hls_status(playlist').duration = get_hls_status(playlist).duration

\* C21 as stated: after a successful base-mode conversion of a fully generated
\* source the call returns the playlist path, the playlist exists and is sealed,
\* and it lists at least one segment with positive total duration.
C21_BaseRunListsAudio ==
  [][\A k \in Calls :
       /\ BaseRun(k) => /\ get_hls_status(playlist').segments >= 1
                        /\ get_hls_status(playlist').duration > 0
       /\ BaseRunReturns(k) => ReturnsSealed(k)]_vars

\* C21, amended: after a successful base-mode conversion of a fully generated
\* source the call returns the playlist path and the playlist exists and is
\* sealed; it lists at least one segment with positive total duration when the
\* source holds audio beyond the start position D+t of the run or the playlist
\* listed a segment before the run.
C21_BaseRunSeals ==
  [][\A k \in Calls :
       /\ (/\ BaseRun(k)
           /\ \/ Len(audio_data[call[k].chapter]) > call[k].start_time
              \/ get_hls_status(playlist).segments >= 1)
          => /\ get_hls_status(playlist').segments >= 1
             /\ get_hls_status(playlist').duration > 0
       /\ BaseRunReturns(k) => ReturnsSealed(k)]_vars

C21_Witness ==
  \E k \in Calls :
    /\ call[k].pc = "respond" /\ call[k].route_case = 2 /\ call[k].returncode = "zero"
    /\ get_hls_status(playlist).ready
    /\ get_hls_status(playlist).segments >= 1

\* The paragraphs of the returned segments, one after the other.
RECURSIVE Flatten(_)
Flatten(segs) == IF segs = <<>> THEN <<>> ELSE Head(segs) \o Flatten(Tail(segs))

\* C22: joining the returned segments with the paragraph delimiter yields exactly
\* the non-empty trimmed paragraphs of the input, in order: none is lost,
\* duplicated, split or reordered.
C22_SegmentsKeepParagraphs ==
  split.pc = "done" => Flatten(segments) = Paragraphs(content)

C22_Witness ==
  /\ split.pc = "done"
  /\ Len(segments) > 1
  /\ Len(Paragraphs(content)) < Len(content)
  /\ \E i \in 1..Len(segments) : Len(segments[i]) > 1

\* Length of the content of a text: its paragraphs joined with newlines.
ContentLen(text) == JoinedLen(Paragraphs(text))

\* No paragraph of the text is longer than 120 characters.
ShortParagraphs(text) == \A i \in 1..Len(text) : text[i] <= 120

\* C23 (as stated): for every text with more than 200 characters of content,
\* the length of segment 0 is between 140 and 260 characters inclusive.
C23_FirstSegmentInRange ==
  (split.pc = "done" /\ ContentLen(content) > 200)
    => /\ JoinedLen(segments[1]) >= 140
       /\ JoinedLen(segments[1]) <= 260

\* C23 (amended): for every text with more than 200 characters of content,
\* segment 0 is at least 140 characters long; it is at most 260 characters long
\* when no paragraph is longer than 120 characters and the text is split into
\* at least two segments.
C23_FirstSegmentAtLeastMin ==
  (split.pc = "done" /\ ContentLen(content) > 200)
    => /\ JoinedLen(segments[1]) >= 140
       /\ (ShortParagraphs(content) /\ Len(segments) >= 2)
            => JoinedLen(segments[1]) <= 260

C23_Witness ==
  /\ split.pc = "done"
  /\ ContentLen(content) > 200
  /\ ShortParagraphs(content)
  /\ Len(segments) >= 2
  /\ JoinedLen(segments[1]) > 200
  /\ JoinedLen(segments[1]) <= 260

\* The step that adds the last segment and returns the list.
Returning == split.pc = "loop" /\ split'.pc = "done"

\* C24: no returned segment is shorter than 100 characters, unless the whole
\* content is shorter than 100 characters; a final segment under 100 characters
\* is merged into the previous segment whenever there is one.
C24_NoShortSegment ==
  [][Returning =>
       /\ ContentLen(content) >= 100
            => \A i \in 1..Len(segments') : JoinedLen(segments'[i]) >= 100
       /\ (JoinedLen(split.current_segment) < 100 /\ segments # <<>>)
            => /\ Len(segments') = Len(segments)
               /\ \A i \in 1..(Len(segments) - 1) : segments'[i] = segments[i]
               /\ segments'[Len(segments)]
                    = segments[Len(segments)] \o split.current_segment]_vars

\* A returned list whose last segment is a closed segment with a final segment
\* under 100 characters merged into it.
C24_Witness ==
  /\ split.pc = "done"
  /\ Len(segments) >= 2
  /\ LET last == segments[Len(segments)]
         n == Len(last)
     IN /\ n >= 2
        /\ last[n].len < 100
        /\ JoinedLen(SubSeq(last, 1, n - 1)) >= min_length(Len(segments) - 1)
        /\ JoinedLen(last) > max_target(Len(segments) - 1)

\* C25 (as stated): a 3,600-character chapter is split into exactly 4 segments,
\* for every division of the text into paragraphs.
C25_ExactlyFourSegments ==
  (split.pc = "done" /\ ContentLen(content) = ChapterLength) => Len(segments) = 4

\* C25 (amended): a 3,600-character chapter whose paragraphs are each at most
\* 120 characters long is split into 4 or 5 segments under the staged target
\* lengths 200/400/1500/1500.
C25_FourOrFiveSegments ==
  (split.pc = "done" /\ ContentLen(content) = ChapterLength
   /\ ShortParagraphs(content))
    => Len(segments) \in {4, 5}

C25_Witness ==
  /\ split.pc = "done"
  /\ ContentLen(content) = ChapterLength
  /\ ShortParagraphs(content)
  /\ Len(segments) = 4
  /\ JoinedLen(segments[1]) <= 260
  /\ JoinedLen(segments[2]) <= 520
  /\ JoinedLen(segments[3]) <= 1500

\* One iteration of the segment loop of task t's script stage.
ScriptIteration(t) == ScriptSegment(t) \/ ScriptSkip(t)

\* Every segment of the chapter has a cached script.
AllScripted(c) == \A j \in 0..(NumSegs - 1) : j \in script_cache[c]

\* C26: for a segment whose cached script exists the script stage issues no
\* script-generation call and enqueues the segment's Script message; so a run
\* for a chapter whose segments were all scripted by an earlier run issues no
\* script-generation call in any of its iterations.
C26_CachedScriptNoCall ==
  [][\A t \in TaskIds :
       LET c == task[t].chapter
           i == sp[t].i
       IN (ScriptIteration(t) /\ (i \in script_cache[c] \/ AllScripted(c)))
          => /\ generate_calls'.last = 0
             /\ generate_calls'.ok
             /\ script_queue'[t]
                  = Append(script_queue[t], ScriptMsg(i, current_start_item(t, i)))
             /\ script_cache' = script_cache]_vars

\* A second run for a chapter of several segments, all scripted by the first one,
\* has gone through all its iterations, the last of them without a call.
C26_Witness ==
  \E t, t2 \in TaskIds :
    /\ task[t2].st = "ended" /\ task[t].st = "running"
    /\ task[t].chapter = task[t2].chapter
    /\ task[t].start_segment = 0
    /\ NumSegs >= 2
    /\ AllScripted(task[t].chapter)
    /\ sp[t].pc = "seg" /\ sp[t].i = NumSegs
    /\ generate_calls.counted /\ generate_calls.last = 0

\* C27: for an uncached segment the script stage calls the script generator at
\* least once and at most 3 times; when all 3 attempts fail, no Script message is
\* enqueued and no cache artifact is written for the segment, and the stage goes
\* on with the next segment (the chapter can still finish complete).
C27_ThreeAttemptsThenSkip ==
  [][\A t \in TaskIds :
       LET c == task[t].chapter
           i == sp[t].i
       IN (ScriptIteration(t) /\ generate_calls.counted /\ i \notin script_cache[c])
          => /\ generate_calls'.last \in 1..3
             /\ ~generate_calls'.ok
                  => /\ generate_calls'.last = 3
                     /\ script_queue'[t] = script_queue[t]
                     /\ script_cache' = script_cache
                     /\ sp'[t] = [pc |-> "seg", i |-> i + 1]
                     /\ error_container'[t] = error_container[t]]_vars

\* The last segment of a chapter was skipped after three failed attempts, and
\* the chapter is complete.
C27_Witness ==
  \E t \in TaskIds :
    /\ task[t].st = "running"
    /\ NumSegs >= 2
    /\ (NumSegs - 1) \notin script_cache[task[t].chapter]
    /\ generate_calls.counted /\ ~generate_calls.ok /\ generate_calls.last = 3
    /\ sp[t].pc = "end"
    /\ ap[t].pc = "exit" /\ ap[t].file_completed
    /\ audio_status[task[t].chapter] = "complete"

Terminal(msg) == msg.tag \in {"done", "error"}

\* The script stage of task t has not put its terminal message yet.
ScriptUnfinished(t) == task[t].st = "running" /\ sp[t].pc \in {"seg", "put_error"}

\* C29: on every run the script stage enqueues exactly one terminal message and
\* nothing after it (the error message after it has seen the cancel flag or
\* caught an exception, Done after the last segment), and the Script messages
\* before it are in strictly increasing segment order: the stage never stays for
\* ever before its terminal message, a terminal message is the last of the
\* queue, and a stage that has returned enqueues nothing.
C29_OneTerminalMessage ==
  /\ [](\A t \in TaskIds :
          /\ (ScriptUnfinished(t) /\ ap[t].pc = "done")
               => ENABLED (ScriptSegment(t) \/ ScriptSkip(t) \/ ScriptException(t)
                            \/ ScriptPutError(t) \/ ScriptDone(t))
          /\ \A n \in 1..Len(script_queue[t]) :
               /\ Terminal(script_queue[t][n]) => n = Len(script_queue[t])
               /\ \A m \in 1..(n - 1) :
                    ~Terminal(script_queue[t][n])
                      => script_queue[t][m].seg < script_queue[t][n].seg)
  /\ [][\A t \in TaskIds :
         /\ (task[t].st = "running" /\ sp[t].pc = "end")
              => Len(script_queue'[t]) <= Len(script_queue[t])
         /\ (/\ Len(script_queue'[t]) > Len(script_queue[t])
             /\ Terminal(script_queue'[t][Len(script_queue'[t])]))
              => IF script_queue'[t][Len(script_queue'[t])].tag = "done"
                 THEN sp[t].pc = "seg" /\ sp[t].i >= NumSegs
                 ELSE sp[t].pc = "put_error" /\ error_container[t] # "none"]_vars

\* C30: a synthesis failure of one utterance affects only that utterance: the
\* audio stage goes on with the next utterance of the same segment when there is
\* one, and the chapter still becomes complete when Done is dequeued.
C30_FailureSkipsOneUtterance ==
  [][\A t \in TaskIds :
       /\ (SynthFail(t) /\ ap[t].item + 1 < NumItems)
            => /\ ap'[t].pc = "synth"
               /\ ap'[t].current_segment_index = ap[t].current_segment_index
               /\ ap'[t].item = ap[t].item + 1
       /\ (AudioGetDone(t) /\ error_container[t] = "exception")
            => audio_status'[task[t].chapter] = "complete"]_vars

C32_TimeoutWaitsAgain ==
  [][\A t \in TaskIds :
       (AudioTimeout(t) /\ ScriptUnfinished(t))
         => /\ ap'[t].pc = "loop"
            /\ audio_status' = audio_status
            /\ tasks' = tasks]_vars

\* The audio stage has written the first segment and waits on the empty queue
\* while the script stage is still at work on the second one: the dequeue times
\* out.
C32_Witness ==
  \E t \in TaskIds :
    /\ ScriptUnfinished(t) /\ sp[t].pc = "seg" /\ sp[t].i = 1
    /\ ap[t].pc = "get" /\ script_queue[t] = <<>>
    /\ audio_data[task[t].chapter] # <<>>
    /\ ~script_complete_event[t]

\* C33: a reader at the end of the file with the status not complete counts
\* every size sample that shows no growth and ends when the count passes the
\* limit, growth resets the count: each sample of a present file either finds
\* the file grown (count 0, read again) or counts one more sample without growth
\* and ends the reader past the limit, also when the file has shrunk or has been
\* recreated.
C33_StalledReaderTerminates ==
  [][\A r \in Readers :
       (ReaderSize(r) /\ audio_exists[StreamChapter])
         => IF Len(audio_data[StreamChapter]) > reader[r].last_size
            THEN reader'[r].pc = "read" /\ reader'[r].no_growth_count = 0
            ELSE IF reader[r].no_growth_count + 1 > StallLimit
            THEN reader'[r].pc = "ended" /\ reader'[r].why = "stalled"
            ELSE /\ reader'[r].pc = "read"
                 /\ reader'[r].no_growth_count = reader[r].no_growth_count + 1]_vars

\* The segment under construction is closed by this pass of the loop.
Closes == split'.segment_index = split.segment_index + 1

\* The length of the segment under construction with the paragraph at hand added.
PotentialLength ==
  IF split.current_segment # <<>>
  THEN JoinedLen(split.current_segment) + split.paragraphs[split.i].len + 1
  ELSE split.paragraphs[split.i].len

\* The staged target of the segment under construction.
StagedTarget ==
  IF split.segment_index = 0 THEN 200 ELSE IF split.segment_index = 1 THEN 400 ELSE 1500

AllTerminated(u) ==
  \A t \in TaskIds : (task[t].st # "free" /\ task[t].user = u) => task[t].st = "ended"

\* C35: no admission entry leaks.  An entry is always that of a running task
\* whose audio stage has not returned yet; once all tasks of a user have
\* terminated the map holds no entry for the user, and a request of the user
\* for a chapter starts a generation unless the chapter is complete with its
\* file; and every entry registered for a task is eventually removed or replaced.
C35_NoEntryLeaks ==
  /\ [](\A u \in Users :
          /\ tasks[u] # NoTask
               => task[tasks[u]].st = "running" /\ ap[tasks[u]].pc # "done"
          /\ AllTerminated(u)
               => /\ tasks[u] = NoTask
                  /\ \A c \in Chapters :
                       /\ ~check_chapter_generating(u, c)
                       /\ StartsGeneration(u, c)
                            <=> ~(audio_status[c] = "complete" /\ audio_exists[c]))
  /\ \A t \in LiveTasks : (tasks[LiveUser] = t) ~> (tasks[LiveUser] # t)

\* Two tasks of the user, for different chapters, have both terminated, the
\* second having replaced the entry of the first, and the map holds no entry.
C35_Witness ==
  \E t1, t2 \in TaskIds :
    /\ t1 < t2
    /\ task[t1].st = "ended" /\ task[t2].st = "ended"
    /\ task[t1].user = LiveUser /\ task[t2].user = LiveUser
    /\ task[t1].chapter # task[t2].chapter
    /\ cancel_event[t1]
    /\ tasks[LiveUser] = NoTask

\* C36: when the second of a task's two workers returns, the chapter's
\* persisted status is complete or failed, not generating, whatever the path the
\* workers took.
C36_EndedTaskNotGenerating ==
  [][\A t \in TaskIds :
       (/\ AudioExit(t) \/ ScriptPutError(t) \/ ScriptDone(t)
        /\ task[t].st = "running" /\ task'[t].st = "ended")
         => audio_status'[task[t].chapter] \in {"complete", "failed"}]_vars

\* C37: a call of clear by a task's audio stage never removes an entry that
\* another task registered, and a running task with its cancel flag unset that
\* has not called clear yet has its own entry in the admission map (so that
\* cancel(user, chapter) sets its flag).
C37_ClearOnlyOwnEntry ==
  /\ [][\A t \in TaskIds :
          (AudioGetDone(t) \/ AudioExit(t))
            => \A u \in Users : tasks'[u] # tasks[u] => tasks[u] = t]_vars
  /\ [](\A t \in TaskIds :
          (/\ task[t].st = "running" /\ ~cancel_event[t]
           /\ ap[t].pc # "done" /\ ap[t].clear_calls = 0)
            => tasks[task[t].user] = t)

\* C38: a playlist served in answer to a request for chapter c lists only
\* segments transcoded from chapter c's audio.
C38_PlaylistOfRequestedChapter ==
  \A k \in Calls :
    (call[k].pc = "respond" /\ Response(k) = "playlist")
      => \A i \in 1..Len(playlist.entries) :
           playlist.entries[i].chapter = call[k].chapter

\* C39: in the direct streaming path every chunk written to the output file is
\* forwarded, in order, to the client that started the generation, as long as
\* that client is connected: the file_writer appends the chunk it writes to the
\* client's queue.
C39_WrittenChunkForwarded ==
  [][(/\ WriterGet
      /\ Head(audio_queue).tag = "data"
      /\ client = "recv")
       => client_queue' = Append(client_queue, Head(audio_queue))]_vars

C7_SingleWriterPerFile ==
  \A t1, t2 \in TaskIds :
    (/\ HandleOpen(t1) /\ ~ap[t1].orphan
     /\ HandleOpen(t2) /\ ~ap[t2].orphan
     /\ task[t1].chapter = task[t2].chapter) => t1 = t2

\* The status changes the specification allows.
AllowedStatusChange ==
  {<<"idle", "generating">>, <<"generating", "complete">>,
   <<"generating", "failed">>, <<"failed", "generating">>}

\* C8: a chapter's persisted status changes only along idle->generating,
\* generating->complete, generating->failed, failed->generating.
C8_StatusTransitions ==
  [][\A c \in Chapters :
       audio_status'[c] # audio_status[c]
         => <<audio_status[c], audio_status'[c]>> \in AllowedStatusChange]_vars

====
